---- MODULE Spec2Model ----
(***************************************************************************)
(* Model of the Instagram profile scraper's session layer and scraping     *)
(* pipeline: SessionManager (account rotation), RateLimiter,                *)
(* InstagramScraper.login_with_backup_support, link discovery and the       *)
(* per-post scraping loops of the three scraping entry points.              *)
(***************************************************************************)
EXTENDS Integers, Sequences, FiniteSets, TLC

(* ---------------------------------------------------------------------- *)
(* Bounds                                                                   *)
(* ---------------------------------------------------------------------- *)
MaxAccounts == 3
MaxOvershoot == 2
MaxDelay == 2
MaxTime == 6
MaxElems == 3
MaxCount == 3
MaxNameLen == 2
MaxComments == 5
MaxEnc == 2
MaxRuns == 3
MaxCaptionLen == 5

AllAccounts == <<"A", "B", "C", "D", "E">>

VARIABLES
    accounts,               \* SessionManager.accounts (usernames, configured order)
    current_account_index,  \* SessionManager.current_account_index (0-based)
    sessions,               \* usernames that have a session_<username>.pkl file
    driver,                 \* InstagramScraper.driver is set
    pc,                     \* position inside login_with_backup_support
    result,                 \* value returned by login_with_backup_support
    attempts,               \* history: <<username, ok>> of each login_with_account call
    attemptKinds,           \* history: how each of those calls ended
    startIndex,             \* history: cursor when login_with_backup_support was called
    setupFailed,            \* history: _setup_driver raised during this call
    lastOp,                 \* history: last SessionManager method called
    lastRet,                \* history: what it returned
    switchCalls,            \* history: switch calls since the cursor was last 0
    exhausted,              \* history: switch returned None and no reset since
    now,                    \* time.time()
    request_delay,          \* RateLimiter.request_delay
    login_delay,            \* RateLimiter.login_delay
    last_request_time,      \* RateLimiter.last_request_time
    last_login_time,        \* RateLimiter.last_login_time
    rlCall,                 \* history: the last wait_for_* call
    page,                   \* the profile page once loading has stopped
    scPc,                   \* position inside the running entry point
    scEntry,                \* which entry point / function is running
    post_count,             \* requested number of posts (max_posts)
    min_quality,            \* min_quality of scrape_posts_enhanced, in tenths
    post_links,             \* links returned by _get_post_links
    scIdx,                  \* loop position in post_links[:post_count]
    posts,                  \* scraped_posts / posts_data so far
    visited,                \* history: <<url, outcome>> of every post visit
    scResult,               \* the dictionary the entry point returned
    comment_count,          \* comment_count of a search entry point
    fnOp,                   \* the function called on its own
    fnInput,                \* its argument
    fnOutput,               \* what it returned
    apiRequest,             \* the body of a POST /scrape request
    apiResponse,            \* the response to it
    apiEffects,             \* scrapers constructed, logins attempted, files written
    p5Scraper,              \* Phase5InstagramScraper.scraper (0 is None, else the object's number)
    p5Objects,              \* history: the calls made on each created scraper object
    p5Runs,                 \* number of run_* calls so far
    p5Last,                 \* history: the last run_* call and how it went
    scroll                  \* one _scroll_to_load_posts call: its locals and what the page shows

smVars == <<accounts, current_account_index, sessions, driver, pc, result,
          attempts, attemptKinds, startIndex, setupFailed, lastOp, lastRet, switchCalls,
          exhausted>>

rlVars == <<now, request_delay, login_delay, last_request_time,
            last_login_time, rlCall>>

scVars == <<page, scPc, scEntry, post_count, min_quality, post_links, scIdx,
            posts, visited, scResult,
           comment_count>>

fnVars == <<fnOp, fnInput, fnOutput>>

\* everything outside the session layer, the rate limiter and the pipeline
apiVars == <<apiRequest, apiResponse, apiEffects>>

p5Vars == <<p5Scraper, p5Objects, p5Runs, p5Last>>

xtVars == <<fnVars, apiVars, p5Vars, scroll>>

vars == <<smVars, rlVars, scVars, xtVars>>

smHist == <<lastOp, lastRet, switchCalls, exhausted>>
loginHist == <<attempts, attemptKinds, startIndex, setupFailed>>

N == Len(accounts)

(* ---------------------------------------------------------------------- *)
(* SessionManager                                                           *)
(* ---------------------------------------------------------------------- *)

\* get_current_account: the credential at the cursor, or the IndexError signal
get_current_account_wrap(accs, idx) ==
    IF idx > Len(accs) THEN "IndexError" ELSE accs[(idx % Len(accs)) + 1]

get_current_account(accs, idx) ==
    IF idx >= Len(accs) THEN "IndexError" ELSE accs[idx + 1]

\* switch_to_backup_account: the cursor after the call (unconditional += 1)
switch_index(accs, idx) == idx + 1

\* switch_to_backup_account: the value returned, given the cursor after += 1
switch_return_early(accs, idx) ==
    IF idx + 1 >= Len(accs) THEN "None" ELSE accs[idx + 1]

switch_return(accs, idx) ==
    IF idx >= Len(accs) THEN "None" ELSE get_current_account(accs, idx)

\* get_remaining_accounts
get_remaining_accounts_total(accs, idx) == Len(accs) - idx

get_remaining_accounts(accs, idx) == Len(accs) - idx - 1

\* save_session / clear_session on the set of stored session files
save_session(sess, u) == sess \cup {u}

clear_session(sess, u) == sess \ {u}

GetCurrentAccount ==
    /\ UNCHANGED <<rlVars, scVars, xtVars>>
    /\ pc = "idle"
    /\ lastOp' = "get_current"
    /\ lastRet' = get_current_account(accounts, current_account_index)
    /\ UNCHANGED <<accounts, current_account_index, sessions, driver, pc,
                   result, loginHist, switchCalls, exhausted>>

SwitchToBackupAccount ==
    /\ UNCHANGED <<rlVars, scVars, xtVars>>
    /\ pc = "idle"
    /\ current_account_index < N + MaxOvershoot
    /\ current_account_index' = switch_index(accounts, current_account_index)
    /\ lastOp' = "switch"
    /\ lastRet' = switch_return(accounts, current_account_index')
    /\ switchCalls' = switchCalls + 1
    /\ exhausted' = (exhausted \/ lastRet' = "None")
    /\ UNCHANGED <<accounts, sessions, driver, pc, result, loginHist>>

GetRemainingAccounts ==
    /\ UNCHANGED <<rlVars, scVars, xtVars>>
    /\ pc = "idle"
    /\ lastOp' = "get_remaining"
    /\ lastRet' = get_remaining_accounts(accounts, current_account_index)
    /\ UNCHANGED <<accounts, current_account_index, sessions, driver, pc,
                   result, loginHist, switchCalls, exhausted>>

ResetAccountIndex ==
    /\ UNCHANGED <<rlVars, scVars, xtVars>>
    /\ pc = "idle"
    /\ current_account_index' = 0
    /\ lastOp' = "reset"
    /\ lastRet' = "None"
    /\ switchCalls' = 0
    /\ exhausted' = FALSE
    /\ UNCHANGED <<accounts, sessions, driver, pc, result, loginHist>>

(* ---------------------------------------------------------------------- *)
(* InstagramScraper.login_with_account                                      *)
(* ---------------------------------------------------------------------- *)

\* What the browser and the site do during one login attempt:
\*   load     - the stored session file can be read and its cookies applied
\*   restored - _check_login_success() is true after restoring the session
\*   fresh    - outcome of the credential form
\*   suspicious - the location after the submission holds one of the patterns
\*                challenge, checkpoint, suspend, confirm, auth_platform/codeentry
FreshOutcomes == {"ok", "rejected", "no_form", "exception"}
LoginEnvs ==
    [load : BOOLEAN, restored : BOOLEAN, fresh : FreshOutcomes, suspicious : BOOLEAN]

\* the stored session is loaded and passes the login check
SessionRestored(sess, u, env) == u \in sess /\ env.load /\ env.restored

\* return value of login_with_account
login_with_account_ok(sess, u, env) ==
    SessionRestored(sess, u, env) \/ env.fresh = "ok"

\* where login_with_account returned: after the restored session passed the
\* check, after the credential check passed ("ok"), after it failed on a
\* location with a suspicious pattern ("hard_fail") or without one
\* ("soft_fail"), at a missing form element, or in the except clause
login_with_account_end(sess, u, env) ==
    IF SessionRestored(sess, u, env) THEN "restored"
    ELSE IF env.fresh = "rejected"
         THEN IF env.suspicious THEN "hard_fail" ELSE "soft_fail"
         ELSE env.fresh

\* the calls login_with_account makes, in order
login_with_account_calls(sess, u, env) ==
    <<"load_session">>
    \o (IF u \in sess /\ env.load
        THEN <<"check_login_success">>
             \o (IF env.restored THEN <<>> ELSE <<"clear_session">>)
        ELSE <<>>)
    \o (IF SessionRestored(sess, u, env) THEN <<>>
        ELSE IF env.fresh = "exception" THEN <<"get_login_page">>
        ELSE IF env.fresh = "no_form" THEN <<"get_login_page">>
        ELSE <<"get_login_page", "submit", "handle_login_popups",
               "check_login_success">>
             \o (IF env.fresh = "ok" THEN <<"save_session">> ELSE <<>>))

\* session files when a failed restore leaves the stored session in place
login_with_account_sessions_kept(sess, u, env) ==
    IF env.fresh = "ok" THEN save_session(sess, u) ELSE sess

\* session files after login_with_account
login_with_account_sessions(sess, u, env) ==
    IF SessionRestored(sess, u, env) THEN sess
    ELSE LET cleared == IF u \in sess /\ env.load
                        THEN clear_session(sess, u) ELSE sess
         IN  IF env.fresh = "ok" THEN save_session(cleared, u) ELSE cleared

(* ---------------------------------------------------------------------- *)
(* InstagramScraper.login_with_backup_support                               *)
(* ---------------------------------------------------------------------- *)

\* entry: set up the driver if needed, then read the current account
LoginStart ==
    /\ UNCHANGED <<rlVars, scVars, xtVars>>
    /\ pc = "idle"
    /\ attempts' = <<>>
    /\ attemptKinds' = <<>>
    /\ startIndex' = current_account_index
    /\ \E setupOk \in BOOLEAN :
         IF ~driver /\ ~setupOk
         THEN \* _setup_driver re-raises; caught by the outer except
              /\ setupFailed' = TRUE
              /\ pc' = "done"
              /\ result' = FALSE
              /\ UNCHANGED <<driver, lastOp, lastRet>>
         ELSE /\ setupFailed' = FALSE
              /\ driver' = TRUE
              /\ lastOp' = "get_current"
              /\ lastRet' = get_current_account(accounts, current_account_index)
              /\ IF lastRet' = "IndexError"
                 THEN pc' = "done" /\ result' = FALSE
                 ELSE pc' = "attempt" /\ result' = "none"
    /\ UNCHANGED <<accounts, current_account_index, sessions, switchCalls,
                   exhausted>>

\* login_with_account(current or backup account)
LoginAttempt ==
    /\ UNCHANGED <<rlVars, scVars, xtVars>>
    /\ pc = "attempt"
    /\ \E env \in LoginEnvs :
         \* lastRet is the account get_current_account / switch_to_backup_account returned
         LET u  == lastRet
             ok == login_with_account_ok(sessions, u, env)
         IN  /\ attempts' = Append(attempts, <<u, ok>>)
             /\ attemptKinds' = Append(attemptKinds, login_with_account_end(sessions, u, env))
             /\ sessions' = login_with_account_sessions(sessions, u, env)
             /\ IF ok
                THEN pc' = "done" /\ result' = TRUE
                ELSE pc' = "switch" /\ UNCHANGED result
    /\ UNCHANGED <<accounts, current_account_index, driver, startIndex,
                   setupFailed, smHist>>

\* backup_account = switch_to_backup_account(); if not backup_account: return False
LoginSwitch ==
    /\ UNCHANGED <<rlVars, scVars, xtVars>>
    /\ pc = "switch"
    /\ current_account_index < N + MaxOvershoot
    /\ current_account_index' = switch_index(accounts, current_account_index)
    /\ lastOp' = "switch"
    /\ lastRet' = switch_return(accounts, current_account_index')
    /\ switchCalls' = switchCalls + 1
    /\ exhausted' = (exhausted \/ lastRet' = "None")
    /\ IF lastRet' = "None"
       THEN pc' = "done" /\ result' = FALSE
       ELSE pc' = "attempt" /\ UNCHANGED result
    /\ UNCHANGED <<accounts, sessions, driver, loginHist>>

\* the caller takes the returned value
LoginReturn ==
    /\ UNCHANGED <<rlVars, scVars, xtVars>>
    /\ pc = "done"
    /\ pc' = "idle"
    /\ UNCHANGED <<accounts, current_account_index, sessions, driver, result,
                   loginHist, smHist>>


(* ---------------------------------------------------------------------- *)
(* RateLimiter                                                              *)
(* ---------------------------------------------------------------------- *)

\* sleep_time of wait_for_request / wait_for_login: current_time is the first
\* time.time() reading, last the class's last-operation stamp
sleep_time_full(current_time, last, delay) ==
    IF current_time - last < delay THEN delay ELSE 0

sleep_time(current_time, last, delay) ==
    IF current_time - last < delay THEN delay - (current_time - last) ELSE 0

NoCall == [class |-> "none", elapsed |-> 0, slept |-> 0, prev |-> 0]

\* time.sleep() returns no earlier than asked; the second time.time() reading
\* is lag ticks after the end of the requested sleep
WaitForRequest ==
    /\ \E lag \in 0..1 :
         LET slp == sleep_time(now, last_request_time, request_delay)
         IN  /\ now + slp + lag <= MaxTime
             /\ now' = now + slp + lag
             /\ last_request_time' = now'
             /\ rlCall' = [class |-> "request", elapsed |-> now - last_request_time,
                           slept |-> slp, prev |-> last_request_time]
    /\ UNCHANGED <<request_delay, login_delay, last_login_time>>
    /\ UNCHANGED <<smVars, scVars, xtVars>>

WaitForLogin ==
    /\ \E lag \in 0..1 :
         LET slp == sleep_time(now, last_login_time, login_delay)
         IN  /\ now + slp + lag <= MaxTime
             /\ now' = now + slp + lag
             /\ last_login_time' = now'
             /\ rlCall' = [class |-> "login", elapsed |-> now - last_login_time,
                           slept |-> slp, prev |-> last_login_time]
    /\ UNCHANGED <<request_delay, login_delay, last_request_time>>
    /\ UNCHANGED <<smVars, scVars, xtVars>>

\* time passes between two calls
Tick ==
    /\ now < MaxTime
    /\ now' = now + 1
    /\ UNCHANGED <<request_delay, login_delay, last_request_time,
                   last_login_time, rlCall>>
    /\ UNCHANGED <<smVars, scVars, xtVars>>


(* ---------------------------------------------------------------------- *)
(* Profile page and link discovery                                          *)
(* ---------------------------------------------------------------------- *)

\* An href is kept as the parts the code inspects: whether it starts with '/',
\* its host, the shape and id of its path, how many times the id is
\* percent-encoded (enc) and whether whitespace surrounds it (ws).
IG == "www.instagram.com"

NoHref == [rel |-> FALSE, host |-> "", kind |-> "", id |-> 0, enc |-> 0, ws |-> FALSE]

HrefPool ==
    { [rel |-> FALSE, host |-> IG, kind |-> "p", id |-> 1, enc |-> 0, ws |-> FALSE],
      [rel |-> TRUE, host |-> "", kind |-> "p", id |-> 1, enc |-> 0, ws |-> FALSE],
      [rel |-> FALSE, host |-> IG, kind |-> "reel", id |-> 2, enc |-> 0, ws |-> FALSE],
      [rel |-> FALSE, host |-> "fakeinstagram.com", kind |-> "p", id |-> 3, enc |-> 0, ws |-> FALSE],
      [rel |-> FALSE, host |-> "example.org", kind |-> "p", id |-> 4, enc |-> 0, ws |-> FALSE],
      [rel |-> FALSE, host |-> IG, kind |-> "explore", id |-> 5, enc |-> 0, ws |-> FALSE],
      NoHref }

PostHrefPool ==
    { [rel |-> FALSE, host |-> IG, kind |-> "p", id |-> 1, enc |-> 0, ws |-> FALSE],
      [rel |-> FALSE, host |-> IG, kind |-> "reel", id |-> 2, enc |-> 0, ws |-> FALSE],
      [rel |-> FALSE, host |-> IG, kind |-> "p", id |-> 6, enc |-> 0, ws |-> FALSE] }

SeqsUpTo(S, n) == UNION {[1..k -> S] : k \in 0..n}

\* markup: the anchors carry the x1i10hfl... classes with role='link' ("role"),
\* the classes only ("class") or neither ("none"); article: they sit in an <article>
Markups == {"role", "class", "none"}

LinkPages == [markup : Markups, article : BOOLEAN, anchors : SeqsUpTo(HrefPool, MaxElems)]

ScrapePages == [markup : {"role"}, article : {TRUE}, anchors : SeqsUpTo(PostHrefPool, MaxElems)]

Min(a, b) == IF a <= b THEN a ELSE b

\* seq[:n] for n >= 0
Take(seq, n) == SubSeq(seq, 1, Min(n, Len(seq)))

\* '/p/' in href or '/reel/' in href
HasPostShape(h) == h.kind \in {"p", "reel"}

\* 'instagram.com' in href (a substring test)
ContainsInstagram(h) == ~h.rel /\ h.host \in {IG, "fakeinstagram.com"}

\* href = f"https://www.instagram.com{href}" when href.startswith('/')
ResolveHref(h) == IF h.rel THEN [h EXCEPT !.rel = FALSE, !.host = IG] ELSE h

Strategy1(pg) == IF pg.markup = "role" THEN pg.anchors ELSE <<>>

Strategy2(pg) == IF pg.markup \in {"role", "class"} THEN pg.anchors ELSE <<>>

\* article a[href*='/p/'], article a[href*='/reel/']
Strategy3(pg) == IF pg.article THEN SelectSeq(pg.anchors, HasPostShape) ELSE <<>>

CandidateElements(pg) ==
    IF Strategy1(pg) # <<>> THEN Strategy1(pg)
    ELSE IF Strategy2(pg) # <<>> THEN Strategy2(pg)
    ELSE Strategy3(pg)

ValidPostLink(h) == HasPostShape(h) /\ ContainsInstagram(h)

\* the element loop of InstagramScraper._get_post_links, with its early break
RECURSIVE CollectLinks(_, _, _, _)
CollectLinks(elems, i, acc, max) ==
    IF i > Len(elems) THEN acc
    ELSE LET h == elems[i]
         IN  IF h # NoHref /\ ValidPostLink(ResolveHref(h))
             THEN LET acc2 == Append(acc, ResolveHref(h))
                  IN  IF Len(acc2) >= max THEN acc2
                      ELSE CollectLinks(elems, i + 1, acc2, max)
             ELSE CollectLinks(elems, i + 1, acc, max)

\* "Remove duplicates while preserving order"
RECURSIVE RemoveDuplicates(_, _, _)
RemoveDuplicates(seq, i, acc) ==
    IF i > Len(seq) THEN acc
    ELSE IF \E k \in 1..Len(acc) : acc[k] = seq[i]
         THEN RemoveDuplicates(seq, i + 1, acc)
         ELSE RemoveDuplicates(seq, i + 1, Append(acc, seq[i]))

\* InstagramScraper._get_post_links(max_posts)
get_post_links(pg, max_posts) ==
    Take(RemoveDuplicates(CollectLinks(CandidateElements(pg), 1, <<>>, max_posts),
                          1, <<>>), max_posts)

\* InstagramPostParser._get_post_links(driver, post_count)
parser_get_post_links(pg, count) ==
    RemoveDuplicates(Take(Strategy3(pg), count), 1, <<>>)

(* ---------------------------------------------------------------------- *)
(* DataCleaner                                                              *)
(* ---------------------------------------------------------------------- *)

\* characters of author names; AllowedChars are those of [a-zA-Z0-9._]
AllowedChars == {"a", "e", "k", "n", "o", "r", "s", "t", "u", "w", "_", "."}

Whitespace == {" ", "\n"}

UnknownUser == <<"u", "n", "k", "n", "o", "w", "n", "_", "u", "s", "e", "r">>

TestUser == <<"t", "e", "s", "t", "_", "u", "s", "e", "r">>

\* what a post page yields: author, caption length, comment lengths
PostContents ==
    { [usernamePost |-> <<>>, caption |-> 0, comments |-> <<>>],
      [usernamePost |-> <<"@", "a">>, caption |-> 11, comments |-> <<12, 12, 12>>],
      [usernamePost |-> TestUser, caption |-> 60,
       comments |-> <<25, 25, 25, 25, 25>>] }

RawPost(url, c) ==
    [usernamePost |-> c.usernamePost, urlPost |-> url, caption |-> c.caption,
     comments |-> c.comments]

\* post_data.get(key, default)
Get(post_data, key, default) ==
    IF key \in DOMAIN post_data THEN post_data[key] ELSE default

RECURSIVE LStrip(_, _)
LStrip(s, chars) ==
    IF s # <<>> /\ Head(s) \in chars THEN LStrip(Tail(s), chars) ELSE s

RECURSIVE RStrip(_, _)
RStrip(s, chars) ==
    IF s # <<>> /\ s[Len(s)] \in chars
    THEN RStrip(SubSeq(s, 1, Len(s) - 1), chars) ELSE s

\* str.strip()
Strip(s) == RStrip(LStrip(s, Whitespace), Whitespace)

\* clean_username; no author of the model starts with 'http', so the branch
\* calling _extract_username_from_url is never taken
clean_username(username) ==
    IF username = <<>> THEN UnknownUser
    ELSE LET no_at == LStrip(Strip(username), {"@"})
             kept  == SelectSeq(no_at, LAMBDA c : c \in AllowedChars)
         IN  IF kept = <<>> THEN UnknownUser ELSE kept

\* clean_url: strip, unquote (one level of percent-decoding), then prefix a
\* path starting with '/p/' or '/reel/'
clean_url(url) ==
    IF url = NoHref THEN NoHref
    ELSE LET stripped == [url EXCEPT !.ws = FALSE]
             unquoted == [stripped EXCEPT !.enc = IF @ > 0 THEN @ - 1 ELSE 0]
         IN  IF ~(~unquoted.rel /\ unquoted.host = IG) /\ unquoted.rel
                /\ HasPostShape(unquoted)
             THEN ResolveHref(unquoted) ELSE unquoted

\* clean_comments drops the comments that are empty after stripping
clean_comments(comments) == SelectSeq(comments, LAMBDA l : l > 0)

RECURSIVE SumSeq(_, _)
SumSeq(seq, i) == IF i > Len(seq) THEN 0 ELSE seq[i] + SumSeq(seq, i + 1)

\* re.match(r'^[a-zA-Z0-9._]+$', username): '$' also matches before a final
\* newline
MatchesUsernamePattern(username) ==
    LET core == IF username # <<>> /\ username[Len(username)] = "\n"
                THEN SubSeq(username, 1, Len(username) - 1) ELSE username
    IN  core # <<>> /\ \A i \in 1..Len(core) : core[i] \in AllowedChars

\* every sub-score at its highest tier of 0.3 and no cap
calculate_quality_score_heavy(post_data) ==
    LET username == Get(post_data, "usernamePost", <<>>)
        url == Get(post_data, "urlPost", NoHref)
    IN  (IF username # <<>> THEN 3 ELSE 0) + (IF url # NoHref THEN 3 ELSE 0)
        + (IF Get(post_data, "caption", 0) > 0 THEN 3 ELSE 0)
        + (IF Get(post_data, "comments", <<>>) # <<>> THEN 3 ELSE 0)

\* calculate_quality_score, in tenths
calculate_quality_score(post_data) ==
    LET username == Get(post_data, "usernamePost", <<>>)
        us == IF username # <<>> /\ username # UnknownUser
              THEN IF MatchesUsernamePattern(username) THEN 2 ELSE 1
              ELSE 0
        url == Get(post_data, "urlPost", NoHref)
        hs == IF url # NoHref /\ ContainsInstagram(url) /\ HasPostShape(url) THEN 2
              ELSE IF url # NoHref THEN 1 ELSE 0
        caption == Get(post_data, "caption", 0)
        cs == IF caption > 50 THEN 3 ELSE IF caption > 10 THEN 2
              ELSE IF caption > 0 THEN 1 ELSE 0
        comments == Get(post_data, "comments", <<>>)
        n  == Len(comments)
        t  == SumSeq(comments, 1)
        ms == IF n >= 5 /\ t > 20 * n THEN 3
              ELSE IF n >= 3 /\ t > 10 * n THEN 2
              ELSE IF n >= 1 THEN 1 ELSE 0
    IN  Min(us + hs + cs + ms, 10)

\* extract_metadata: the post type, from the URL
extract_metadata(post_data) ==
    LET url == Get(post_data, "urlPost", NoHref)
    IN  [post_type |-> IF url.kind = "reel" THEN "reel"
                       ELSE IF url.kind = "p" THEN "post" ELSE "unknown"]

\* the five cleaned fields of clean_post_data
CleanedFields(post_data) ==
    [usernamePost |-> clean_username(Get(post_data, "usernamePost", <<>>)),
     urlPost |-> clean_url(Get(post_data, "urlPost", NoHref)),
     caption |-> Get(post_data, "caption", 0),
     comments |-> clean_comments(Get(post_data, "comments", <<>>))]

\* the dictionary clean_post_data returns when the score is score
ScoredPost(cleaned_data, score) ==
    [usernamePost |-> cleaned_data.usernamePost, urlPost |-> cleaned_data.urlPost,
     caption |-> cleaned_data.caption, comments |-> cleaned_data.comments,
     quality_score |-> score, metadata |-> extract_metadata(cleaned_data)]

\* the score taken from the raw fields, before cleaning
clean_post_data_scores_raw(post_data) ==
    ScoredPost(CleanedFields(post_data), calculate_quality_score(post_data))

clean_post_data(post_data) ==
    ScoredPost(CleanedFields(post_data),
               calculate_quality_score(CleanedFields(post_data)))

\* post_data.get("quality_score", 0.0)
QualityOf(post) ==
    IF "quality_score" \in DOMAIN post THEN post.quality_score ELSE 0

\* "if quality_score > min_quality" instead of ">="
filter_by_quality_strict(ps, minq) ==
    SelectSeq(ps, LAMBDA q : QualityOf(q) > minq)

filter_by_quality(ps, minq) ==
    SelectSeq(ps, LAMBDA q : QualityOf(q) >= minq)

clean_batch_data(posts_data) ==
    [i \in 1..Len(posts_data) |-> clean_post_data(posts_data[i])]

(* ---------------------------------------------------------------------- *)
(* Scraping entry points                                                    *)
(* ---------------------------------------------------------------------- *)

ErrorResult == [error |-> "error", results |-> <<>>]

NoResult == [error |-> "pending", results |-> <<>>]

VisitOutcomes == {"record", "nothing", "raises"}

\* InstagramScraper._get_post_links called on its own
GetPostLinks ==
    /\ scPc = "idle"
    /\ \E max \in 0..MaxCount :
         /\ post_count' = max
         /\ post_links' = get_post_links(page, max)
    /\ scEntry' = "scraper_links"
    /\ scPc' = "done"
    /\ UNCHANGED <<page, min_quality, scIdx, posts, visited, scResult>>
    /\ UNCHANGED comment_count
    /\ UNCHANGED <<smVars, rlVars, xtVars>>

\* InstagramPostParser._get_post_links called on its own
ParserGetPostLinks ==
    /\ scPc = "idle"
    /\ \E max \in 0..MaxCount :
         /\ post_count' = max
         /\ post_links' = parser_get_post_links(page, max)
    /\ scEntry' = "parser_links"
    /\ scPc' = "done"
    /\ UNCHANGED <<page, min_quality, scIdx, posts, visited, scResult>>
    /\ UNCHANGED comment_count
    /\ UNCHANGED <<smVars, rlVars, xtVars>>

\* InstagramScraper.scrape_posts up to the post loop
ScrapePosts ==
    /\ scPc = "idle"
    /\ scEntry' = "scrape_posts"
    /\ \E n \in 0..MaxCount, navigated \in BOOLEAN :
         /\ post_count' = n
         /\ IF ~navigated
            THEN /\ post_links' = <<>>
                 /\ scResult' = ErrorResult
                 /\ scPc' = "done"
            ELSE /\ post_links' = get_post_links(page, n)
                 /\ IF post_links' = <<>>
                    THEN scResult' = ErrorResult /\ scPc' = "done"
                    ELSE scResult' = NoResult /\ scPc' = "loop"
    /\ scIdx' = 1
    /\ posts' = <<>>
    /\ visited' = <<>>
    /\ UNCHANGED <<page, min_quality>>
    /\ UNCHANGED comment_count
    /\ UNCHANGED <<smVars, rlVars, xtVars>>

\* extract_profile_posts up to the post loop of extract_post_data; entry is
\* "extract_profile_posts" or "scrape_posts_enhanced" (which calls the former)
ProfilePostsStart(entry, n, minq, ready) ==
    /\ scPc = "idle"
    /\ scEntry' = entry
    /\ post_count' = n
    /\ min_quality' = minq
    /\ IF ~ready
       THEN \* not initialised, or the wait for the article timed out
            /\ post_links' = <<>>
            /\ scResult' = ErrorResult
            /\ scPc' = "done"
       ELSE /\ post_links' = parser_get_post_links(page, n)
            /\ scResult' = NoResult
            /\ scPc' = "loop"
    /\ scIdx' = 1
    /\ posts' = <<>>
    /\ visited' = <<>>
    /\ UNCHANGED page
    /\ UNCHANGED comment_count
    /\ UNCHANGED <<smVars, rlVars, xtVars>>

ExtractProfilePosts ==
    \E n \in 0..MaxCount, ready \in BOOLEAN :
        ProfilePostsStart("extract_profile_posts", n, min_quality, ready)

ScrapePostsEnhanced ==
    \E n \in 0..MaxCount, minq \in {0, 5}, ready \in BOOLEAN :
        ProfilePostsStart("scrape_posts_enhanced", n, minq, ready)

\* one iteration of "for i, post_url in enumerate(post_links[:post_count])"
VisitPost ==
    /\ scPc = "loop"
    /\ scIdx <= Len(Take(post_links, post_count))
    /\ \E outcome \in VisitOutcomes, c \in PostContents :
         LET url == post_links[scIdx]
             raw == RawPost(url, c)
         IN  /\ visited' = Append(visited, <<url, outcome>>)
             /\ posts' = IF outcome # "record" THEN posts
                         ELSE IF scEntry = "scrape_posts" THEN Append(posts, raw)
                         ELSE Append(posts, clean_post_data(raw))
    /\ scIdx' = scIdx + 1
    /\ UNCHANGED <<page, scPc, scEntry, post_count, min_quality, post_links,
                   scResult>>
    /\ UNCHANGED comment_count
    /\ UNCHANGED <<smVars, rlVars, xtVars>>

\* the result dictionary of scrape_posts_enhanced from the parser's results
EnhancedResult(raw_posts, n, minq) ==
    IF raw_posts = <<>> THEN ErrorResult
    ELSE LET cleaned_posts == [i \in 1..Len(raw_posts) |-> clean_post_data(raw_posts[i])]
             filtered_posts == IF minq > 0 THEN filter_by_quality(cleaned_posts, minq)
                               ELSE cleaned_posts
         IN  [total_posts_extracted |-> Len(raw_posts),
              posts_after_cleaning |-> Len(filtered_posts),
              requested_posts |-> n,
              results |-> filtered_posts]

\* after the loop: build the returned dictionary
FinishScrape ==
    /\ scPc = "loop"
    /\ scIdx > Len(Take(post_links, post_count))
    /\ scResult' =
         IF scEntry = "scrape_posts"
         THEN [results |-> posts, total_scraped |-> Len(posts),
               requested_count |-> post_count]
         ELSE IF scEntry = "extract_profile_posts"
         THEN [total_posts_extracted |-> Len(posts),
               requested_posts |-> post_count, results |-> posts]
         ELSE EnhancedResult(posts, post_count, min_quality)
    /\ scPc' = "done"
    /\ UNCHANGED <<page, scEntry, post_count, min_quality, post_links, scIdx,
                   posts, visited>>
    /\ UNCHANGED comment_count
    /\ UNCHANGED <<smVars, rlVars, xtVars>>

\* thresholds passed to filter_by_quality, in tenths
MinQualities == {0, 2, 5, 10}

\* DataCleaner.clean_batch_data followed by DataCleaner.filter_by_quality,
\* applied to the records scrape_posts returned
CleanBatchData ==
    /\ scPc = "done"
    /\ scEntry = "scrape_posts"
    /\ "total_scraped" \in DOMAIN scResult
    /\ \E minq \in MinQualities :
         LET cleaned_posts == clean_batch_data(scResult.results)
         IN  /\ min_quality' = minq
             /\ scResult' = [raw |-> scResult.results,
                             cleaned |-> cleaned_posts,
                             results |-> filter_by_quality(cleaned_posts, minq)]
    /\ scPc' = "cleaned"
    /\ UNCHANGED <<page, scEntry, post_count, post_links, scIdx, posts, visited>>
    /\ UNCHANGED comment_count
    /\ UNCHANGED <<smVars, rlVars, xtVars>>

\* LocationSearcher._collect_current_page_posts and
\* SuspectedAccountSearcher._collect_account_posts: the distinct post/reel
\* hrefs of the page, in order of first appearance, at most post_count
searcher_post_links(pg, count) ==
    Take(RemoveDuplicates(SelectSeq(pg.anchors, HasPostShape), 1, <<>>), count)

\* _create_empty_search_result
EmptySearchResult ==
    [error |-> "error", total_posts_found |-> 0, posts_extracted |-> 0,
     results |-> <<>>]

\* self.parser.extract_post_data(driver.page_source, post_data['url']): the
\* page source (a string) is passed as driver and the URL as post_count, so
\* _scroll_to_load_posts and _get_post_links catch an AttributeError, the
\* slice post_links[:post_count] raises TypeError, which extract_post_data
\* catches, and the call returns the empty posts_data
extract_post_data_of_page_source == <<>>

\* search_by_location / search_by_suspected_account up to the post loop
SearchStart(entry, n, cc, found) ==
    /\ scPc = "idle"
    /\ scEntry' = entry
    /\ post_count' = n
    /\ comment_count' = cc
    /\ post_links' = IF found THEN searcher_post_links(page, n) ELSE <<>>
    /\ IF post_links' = <<>>
       THEN scResult' = EmptySearchResult /\ scPc' = "done"
       ELSE scResult' = NoResult /\ scPc' = "search_loop"
    /\ scIdx' = 1
    /\ posts' = <<>>
    /\ visited' = <<>>
    /\ UNCHANGED <<page, min_quality>>
    /\ UNCHANGED <<smVars, rlVars, xtVars>>

\* found is false when every approach of the LocationSearcher failed
SearchByLocation ==
    \E n \in 0..MaxCount, cc \in 0..1, found \in BOOLEAN :
        SearchStart("search_by_location", n, cc, found)

\* found is false when get_account_info returned nothing or the profile is
\* not accessible
SearchBySuspectedAccount ==
    \E n \in 0..MaxCount, cc \in 0..1, found \in BOOLEAN :
        SearchStart("search_by_suspected_account", n, cc, found)

\* one iteration of "for i, post_data in enumerate(post_links)"
SearchVisitPost ==
    /\ scPc = "search_loop"
    /\ scIdx <= Len(post_links)
    /\ \E raises \in BOOLEAN :
         LET url == post_links[scIdx]
             post_details == extract_post_data_of_page_source
         IN  IF raises
             THEN /\ visited' = Append(visited, <<url, "raises">>)
                  /\ posts' = posts
             ELSE IF post_details # <<>>
             THEN LET cleaned_post == clean_post_data(post_details)
                  IN  IF comment_count > 0
                      THEN \* self.parser.extract_comments does not exist: the
                           \* AttributeError is caught by the loop's except
                           /\ visited' = Append(visited, <<url, "raises">>)
                           /\ posts' = posts
                      ELSE /\ visited' = Append(visited, <<url, "record">>)
                           /\ posts' = Append(posts, cleaned_post)
             ELSE /\ visited' = Append(visited, <<url, "nothing">>)
                  /\ posts' = posts
    /\ scIdx' = scIdx + 1
    /\ UNCHANGED <<page, scPc, scEntry, post_count, min_quality, post_links,
                   scResult, comment_count>>
    /\ UNCHANGED <<smVars, rlVars, xtVars>>

\* after the loop: the standardized result
SearchFinish ==
    /\ scPc = "search_loop"
    /\ scIdx > Len(post_links)
    /\ scResult' = [total_posts_found |-> Len(post_links),
                    posts_extracted |-> Len(posts),
                    requested_posts |-> post_count,
                    results |-> posts]
    /\ scPc' = "done"
    /\ UNCHANGED <<page, scEntry, post_count, min_quality, post_links, scIdx,
                   posts, visited, comment_count>>
    /\ UNCHANGED <<smVars, rlVars, xtVars>>

(* ---------------------------------------------------------------------- *)
(* Functions called on their own                                            *)
(* ---------------------------------------------------------------------- *)

Usernames == SeqsUpTo({"a", "@", " ", "\n"}, MaxNameLen) \cup {UnknownUser, TestUser}

\* 'https://host/p/X/'
HostPost == [rel |-> FALSE, host |-> "host", kind |-> "p", id |-> 7, enc |-> 0, ws |-> FALSE]

CaptionLengths == {0, 1, 10, 11, 50, 51, 60}

CommentLists ==
    {[i \in 1..n |-> l] : n \in 0..MaxComments, l \in {10, 11, 20, 21, 25}}
        \cup {<<0>>, <<30, 30, 30, 30, 5>>}

\* records given to calculate_quality_score, some with fields missing
ScoreInputs ==
    [usernamePost : Usernames, urlPost : HrefPool \cup {HostPost},
     caption : CaptionLengths, comments : CommentLists]
        \cup [caption : {0, 60}]
        \cup [usernamePost : {TestUser}, comments : {<<25, 25, 25>>}]
        \cup [urlPost : {HostPost}]

\* strings given to clean_url
UrlInputs ==
    {u \in [rel : BOOLEAN, host : {"", IG, "example.org"},
            kind : {"p", "reel", "explore"}, id : {1}, enc : 0..MaxEnc,
            ws : BOOLEAN] : u.rel <=> (u.host = "")}
        \cup {NoHref}

\* the substrings of driver.current_url that test_basic_navigation looks for
failed_login_patterns == <<"challenge", "two_factor", "checkpoint", "suspend", "confirm">>

UrlMarks ==
    {"instagram.com/accounts/login", "instagram.com/auth_platform/codeentry"}
        \cup {failed_login_patterns[i] : i \in 1..Len(failed_login_patterns)}

NavInputs == [initialised : BOOLEAN, raises : BOOLEAN, contains : SUBSET UrlMarks]

\* the substrings of the page location that mark a suspicious page
SuspiciousPatterns ==
    {"challenge", "checkpoint", "suspend", "confirm",
     "instagram.com/auth_platform/codeentry"}

\* the substring of driver.current_url that _check_login_success looks for
LoginPageMark == "instagram.com/accounts/login"

\* the location 'https://www.instagram.com/' itself: it holds none of the
\* marked substrings
HomeUrl == {"https://www.instagram.com/ and nothing after it"}

\* page locations, each given by the marked substrings it contains; {} is
\* any other location without a marked substring
LoginUrls ==
    {{}, HomeUrl, {LoginPageMark}, {"challenge"}, {"checkpoint"}, {"suspend"},
     {"confirm"}, {"instagram.com/auth_platform/codeentry"},
     {LoginPageMark, "challenge"}}

\* what the driver shows when _check_login_success runs:
\*   landmark - one of success_indicators is found
\*   error    - one of error_selectors is found and displayed
\*   raises   - reading driver.current_url raises
LoginPages ==
    [landmark : BOOLEAN, error : BOOLEAN, raises : BOOLEAN, current_url : LoginUrls]

\* one login_with_account call: whether a session file is stored for the
\* account and can be loaded, the page after restoring it, how far the
\* credential form gets, and the page after submitting it
LoginInputs ==
    [stored : BOOLEAN, load : BOOLEAN, restorePage : LoginPages,
     form : {"submitted", "no_form", "exception"}, submitPage : LoginPages]

FnInputs ==
    {[kind |-> "post", arg |-> x] : x \in ScoreInputs}
        \cup {[kind |-> "url", arg |-> x] : x \in UrlInputs}
        \cup {[kind |-> "nav", arg |-> x] : x \in NavInputs}

\* DataCleaner.calculate_quality_score(post_data), called twice
CalculateQualityScore ==
    /\ fnOp = "none"
    /\ fnInput.kind = "post"
    /\ fnOp' = "calculate_quality_score"
    /\ fnOutput' = [kind |-> "score",
                    first |-> calculate_quality_score(fnInput.arg),
                    second |-> calculate_quality_score(fnInput.arg)]
    /\ UNCHANGED fnInput
    /\ UNCHANGED <<smVars, rlVars, scVars, apiVars, p5Vars, scroll>>

\* DataCleaner.clean_url(url), and clean_url of its result
CleanUrl ==
    /\ fnOp = "none"
    /\ fnInput.kind = "url"
    /\ fnOp' = "clean_url"
    /\ fnOutput' = [kind |-> "url",
                    once |-> clean_url(fnInput.arg),
                    twice |-> clean_url(clean_url(fnInput.arg))]
    /\ UNCHANGED fnInput
    /\ UNCHANGED <<smVars, rlVars, scVars, apiVars, p5Vars, scroll>>

\* the loop over failed_login_patterns: its body ends with a return False at
\* the level of the if, so the first iteration always returns
check_failed_login_patterns(current_url) ==
    IF Len(failed_login_patterns) = 0 THEN "fallthrough"
    ELSE IF failed_login_patterns[1] \in current_url THEN "False"
    ELSE "False"

\* InstagramProfileScraper.test_basic_navigation
test_basic_navigation(env) ==
    IF ~env.initialised THEN FALSE
    ELSE IF env.raises THEN FALSE
    ELSE IF "instagram.com/accounts/login" \in env.contains THEN FALSE
    ELSE IF "instagram.com/auth_platform/codeentry" \in env.contains THEN FALSE
    ELSE IF check_failed_login_patterns(env.contains) = "False" THEN FALSE
    ELSE TRUE

TestBasicNavigation ==
    /\ fnOp = "none"
    /\ fnInput.kind = "nav"
    /\ fnOp' = "test_basic_navigation"
    /\ fnOutput' = [kind |-> "bool", value |-> test_basic_navigation(fnInput.arg)]
    /\ UNCHANGED fnInput
    /\ UNCHANGED <<smVars, rlVars, scVars, apiVars, p5Vars, scroll>>

\* InstagramScraper._check_login_success
check_login_success(shown) ==
    IF shown.landmark THEN TRUE
    ELSE IF shown.error THEN FALSE
    ELSE IF shown.raises THEN FALSE
    ELSE IF LoginPageMark \in shown.current_url THEN FALSE
    ELSE TRUE

\* InstagramScraper._check_login_success() on a drawn page
CheckLoginSuccess ==
    /\ fnOp = "none"
    /\ fnInput.kind = "page"
    /\ fnOp' = "check_login_success"
    /\ fnOutput' = [kind |-> "bool", value |-> check_login_success(fnInput.arg)]
    /\ UNCHANGED fnInput
    /\ UNCHANGED <<smVars, rlVars, scVars, apiVars, p5Vars, scroll>>

\* the outcomes of one login_with_account call, from what the driver shows
LoginEnvOf(in) ==
    [load |-> in.load,
     restored |-> check_login_success(in.restorePage),
     fresh |-> IF in.form = "submitted"
               THEN IF check_login_success(in.submitPage) THEN "ok" ELSE "rejected"
               ELSE in.form,
     suspicious |-> in.submitPage.current_url \cap SuspiciousPatterns # {}]

\* InstagramScraper.login_with_account(account) for the first account
LoginWithAccount ==
    /\ fnOp = "none"
    /\ fnInput.kind = "login"
    /\ fnOp' = "login_with_account"
    /\ LET in == fnInput.arg
           u == AllAccounts[1]
           \* the second account has a session file, the third has none
           sess == {AllAccounts[2]} \cup (IF in.stored THEN {u} ELSE {})
           env == LoginEnvOf(in)
           restoreChecked == u \in sess /\ in.load
           submitted == ~SessionRestored(sess, u, env) /\ in.form = "submitted"
       IN  fnOutput' = [kind |-> "login",
                        username |-> u,
                        before |-> sess,
                        calls |-> login_with_account_calls(sess, u, env),
                        value |-> login_with_account_ok(sess, u, env),
                        sessions |-> login_with_account_sessions(sess, u, env),
                        restoreChecked |-> restoreChecked,
                        submitted |-> submitted]
    /\ UNCHANGED fnInput
    /\ UNCHANGED <<smVars, rlVars, scVars, apiVars, p5Vars, scroll>>

(* ---------------------------------------------------------------------- *)
(* InstagramPostParser: the enhanced field extractors                       *)
(* ---------------------------------------------------------------------- *)

\* what one strategy finds for a field: nothing, a text its own test rejects
\* (an unparsable date, a text that is too short), or a text it accepts
Candidates == {"none", "implausible", "value"}

\* a post page as the extractors of one field see it:
\*   structured - the JSON-LD block          meta     - the meta tag
\*   rendered   - elements of the parsed page selenium - the Selenium fallback
DatePages ==
    [structured : Candidates, meta : Candidates, rendered : Candidates,
     selenium : {"none"}]

CaptionPages ==
    [structured : Candidates, meta : Candidates, rendered : Candidates,
     selenium : Candidates]

\* the comments each strategy finds (texts that pass _is_likely_comment, as
\* numbers; equal numbers are equal texts) and the number asked for
CommentPages ==
    [json : {<<>>, <<1>>, <<1, 2>>}, html : {<<>>, <<2>>, <<2, 3>>},
     selenium : {<<>>, <<3, 4>>}, comment_count : 1..MaxCount]

\* _extract_release_date_enhanced: the source of the returned date
extract_release_date_enhanced(pg) ==
    IF pg.rendered = "value" THEN "rendered"
    ELSE IF pg.structured = "value" THEN "structured"
    ELSE IF pg.meta = "value" THEN "meta"
    ELSE "default"

\* _extract_caption_enhanced: the source of the returned caption
extract_caption_enhanced(pg) ==
    IF pg.structured = "value" THEN "structured"
    ELSE IF pg.meta = "value" THEN "meta"
    ELSE IF pg.rendered = "value" THEN "rendered"
    ELSE IF pg.selenium = "value" THEN "selenium"
    ELSE "default"

\* seq extended by the elements of more that it does not hold yet
RECURSIVE AppendNew(_, _)
AppendNew(seq, more) ==
    IF more = <<>> THEN seq
    ELSE AppendNew(IF \E i \in 1..Len(seq) : seq[i] = Head(more)
                   THEN seq ELSE Append(seq, Head(more)),
                   Tail(more))

\* _extract_comments_enhanced: the texts returned, in order
extract_comments_enhanced(pg) ==
    LET method1 == pg.json
        method2 == IF Len(method1) < pg.comment_count
                   THEN AppendNew(method1, pg.html) ELSE method1
        method3 == IF Len(method2) < pg.comment_count
                   THEN AppendNew(method2, pg.selenium) ELSE method2
    IN  SubSeq(method3, 1, IF Len(method3) < pg.comment_count
                           THEN Len(method3) ELSE pg.comment_count)

ExtractReleaseDateEnhanced ==
    /\ fnOp = "none"
    /\ fnInput.kind = "date_page"
    /\ fnOp' = "extract_release_date_enhanced"
    /\ fnOutput' = [kind |-> "source", value |-> extract_release_date_enhanced(fnInput.arg)]
    /\ UNCHANGED fnInput
    /\ UNCHANGED <<smVars, rlVars, scVars, apiVars, p5Vars, scroll>>

ExtractCaptionEnhanced ==
    /\ fnOp = "none"
    /\ fnInput.kind = "caption_page"
    /\ fnOp' = "extract_caption_enhanced"
    /\ fnOutput' = [kind |-> "source", value |-> extract_caption_enhanced(fnInput.arg)]
    /\ UNCHANGED fnInput
    /\ UNCHANGED <<smVars, rlVars, scVars, apiVars, p5Vars, scroll>>

ExtractCommentsEnhanced ==
    /\ fnOp = "none"
    /\ fnInput.kind = "comment_page"
    /\ fnOp' = "extract_comments_enhanced"
    /\ fnOutput' = [kind |-> "texts", value |-> extract_comments_enhanced(fnInput.arg)]
    /\ UNCHANGED fnInput
    /\ UNCHANGED <<smVars, rlVars, scVars, apiVars, p5Vars, scroll>>

\* a text given to _is_likely_comment, with what the tests of both
\* definitions read from it: len(text), text.isdigit(), text.lower(),
\* a lone word starting with '@', a match of ^\d+[smhd]$ and of
\* ^\d+\s*(like|comment|share|view)s?$, and text.count('\n')
TextSample(text, lower, len, isdigit, mention, time, counter, newlines) ==
    [text |-> text, lower |-> lower, len |-> len, isdigit |-> isdigit,
     mention |-> mention, time |-> time, counter |-> counter,
     newlines |-> newlines]

CommentTexts ==
    { TextSample("Like", "like", 4, FALSE, FALSE, FALSE, FALSE, 0),
      TextSample("Reply", "reply", 5, FALSE, FALSE, FALSE, FALSE, 0),
      TextSample("View replies", "view replies", 12, FALSE, FALSE, FALSE, FALSE, 0),
      TextSample("like", "like", 4, FALSE, FALSE, FALSE, FALSE, 0),
      TextSample("5m", "5m", 2, FALSE, FALSE, TRUE, FALSE, 0),
      TextSample("12h", "12h", 3, FALSE, FALSE, TRUE, FALSE, 0),
      TextSample("123", "123", 3, TRUE, FALSE, FALSE, FALSE, 0),
      TextSample("@user", "@user", 5, FALSE, TRUE, FALSE, FALSE, 0),
      TextSample("heart", "heart", 2, FALSE, FALSE, FALSE, FALSE, 0),
      TextSample("thumbs up", "thumbs up", 1, FALSE, FALSE, FALSE, FALSE, 0),
      TextSample("fire", "fire", 1, FALSE, FALSE, FALSE, FALSE, 0),
      TextSample("12 likes", "12 likes", 8, FALSE, FALSE, FALSE, TRUE, 0),
      TextSample("501 letters", "501 letters", 501, FALSE, FALSE, FALSE, FALSE, 0),
      TextSample("7 lines", "7 lines", 13, FALSE, FALSE, FALSE, FALSE, 6),
      TextSample("Great shot, thanks for sharing!", "great shot, thanks for sharing!",
                 31, FALSE, FALSE, FALSE, FALSE, 0) }

\* the first definition of _is_likely_comment in the class body; the second
\* definition replaces it
is_likely_comment_enhanced(t) ==
    ~ \/ t.len < 3
      \/ t.isdigit
      \/ t.lower \in {"like", "reply", "view replies", "hide replies", "more", "less"}
      \/ t.mention
      \/ t.time
      \/ t.text \in {"bullet", "...", "heart", "thumbs up", "fire"}
      \/ t.counter
      \/ t.len > 500
      \/ t.newlines > 5

\* InstagramPostParser._is_likely_comment as bound on the class: the second
\* definition
is_likely_comment(t) ==
    ~ \/ t.len < 3
      \/ t.isdigit
      \/ t.text \in {"Like", "Reply", "View replies", "Hide replies"}
      \/ t.mention
      \/ t.time
      \/ t.text \in {"bullet", "...", "more", "less"}

IsLikelyComment ==
    /\ fnOp = "none"
    /\ fnInput.kind = "text"
    /\ fnOp' = "is_likely_comment"
    /\ fnOutput' = [kind |-> "bool", value |-> is_likely_comment(fnInput.arg)]
    /\ UNCHANGED fnInput
    /\ UNCHANGED <<smVars, rlVars, scVars, apiVars, p5Vars, scroll>>

(* ---------------------------------------------------------------------- *)
(* DataCleaner.clean_caption                                                *)
(* ---------------------------------------------------------------------- *)

\* the characters \s matches among those of the model's captions
CaptionWhitespace == {" ", "\t", "\n"}

\* captions as character sequences; none of these characters is changed by
\* html.unescape or by NFKC normalisation
CaptionChars == {"a"} \cup CaptionWhitespace

CaptionInputs ==
    UNION {[1..n -> CaptionChars] : n \in 0..MaxCaptionLen}

\* re.sub(r'\s+', ' ', caption)
RECURSIVE CollapseWhitespace(_)
CollapseWhitespace(str) ==
    IF str = <<>> THEN <<>>
    ELSE IF Head(str) \in CaptionWhitespace
         THEN <<" ">> \o CollapseWhitespace(LStrip(str, CaptionWhitespace))
         ELSE <<Head(str)>> \o CollapseWhitespace(Tail(str))

\* the index of the last newline in the whitespace run that starts at index
\* from, or 0 when the run holds none
RECURSIVE LastNewlineInRun(_, _, _)
LastNewlineInRun(str, from, found) ==
    IF from > Len(str) \/ str[from] \notin CaptionWhitespace THEN found
    ELSE LastNewlineInRun(str, from + 1, IF str[from] = "\n" THEN from ELSE found)

\* re.sub(r'\n\s*\n', '\n\n', caption)
RECURSIVE CollapseBlankLines(_)
CollapseBlankLines(str) ==
    IF str = <<>> THEN <<>>
    ELSE IF Head(str) = "\n" /\ LastNewlineInRun(str, 2, 0) # 0
         THEN <<"\n", "\n">>
              \o CollapseBlankLines(SubSeq(str, LastNewlineInRun(str, 2, 0) + 1, Len(str)))
         ELSE <<Head(str)>> \o CollapseBlankLines(Tail(str))

\* DataCleaner.clean_caption
clean_caption(caption) ==
    IF caption = <<>> THEN <<>>
    ELSE LET spaces == CollapseWhitespace(caption)
             lines == CollapseBlankLines(spaces)
         IN  RStrip(LStrip(lines, CaptionWhitespace), CaptionWhitespace)

CleanCaption ==
    /\ fnOp = "none"
    /\ fnInput.kind = "caption"
    /\ fnOp' = "clean_caption"
    /\ fnOutput' = [kind |-> "caption", value |-> clean_caption(fnInput.arg)]
    /\ UNCHANGED fnInput
    /\ UNCHANGED <<smVars, rlVars, scVars, apiVars, p5Vars, scroll>>

(* ---------------------------------------------------------------------- *)
(* POST /scrape                                                             *)
(* ---------------------------------------------------------------------- *)

NoEffects == [scrapers |-> 0, logins |-> 0, files |-> 0, cleanups |-> 0]

NoResponse == [status |-> 0]

APIFixed ==
    apiRequest = [body |-> "none"] /\ apiResponse = NoResponse /\ apiEffects = NoEffects

\* JSON values by type; Absent is a key the body does not have
Absent == [t |-> "absent"]

JInt(n) == [t |-> "int", v |-> n]

JStr(x) == [t |-> "str", v |-> x]

JList(x) == [t |-> "list", v |-> x]

JDict(keys) == [t |-> "dict", v |-> keys]

GoodAccount == JDict({"username", "password"})

AccountsValues ==
    { Absent, JList(<<>>), JList(<<GoodAccount>>),
      JList(<<GoodAccount, JDict({"username"})>>), JList(<<JDict({"password"})>>),
      JList(<<JStr("user:pw")>>), JStr("invalid_format"), JStr(""),
      JDict({}), JDict({"username", "password"}) }

CountValues ==
    { Absent, JInt(0), JInt(3), JInt(-1), JInt(-5), JStr("5"),
      [t |-> "float", v |-> 2], [t |-> "bool", v |-> TRUE] }

SuspectedValues ==
    { Absent, JStr("test_account"), JStr(""), JStr(" "), JInt(123), JInt(0) }

ScrapeRequests ==
    [body : {"object"}, accounts : AccountsValues,
     suspected_account : SuspectedValues, post_count : CountValues,
     comment_count : CountValues]
        \cup {[body |-> "null"]}

\* Python truth value of a JSON value; an absent key reads as its default
Truthy(x) ==
    CASE x.t = "absent" -> FALSE
      [] x.t = "int" -> x.v # 0
      [] x.t = "float" -> x.v # 0
      [] x.t = "bool" -> x.v
      [] x.t = "str" -> x.v # ""
      [] x.t = "list" -> x.v # <<>>
      [] x.t = "dict" -> x.v # {}

\* isinstance(x, int): True for bool as well
IsInstanceInt(x) == x.t \in {"int", "bool"}

\* the integer value of an int or a bool
IntValue(x) == IF x.t = "bool" THEN (IF x.v THEN 1 ELSE 0) ELSE x.v

\* not request_data: a null body, or an object without any key
EmptyBody(req) ==
    \/ req.body = "null"
    \/ /\ req.accounts = Absent /\ req.suspected_account = Absent
       /\ req.post_count = Absent /\ req.comment_count = Absent

ValidationError(msg) ==
    [error |-> TRUE, message |-> msg]

\* InstagramScrapingAPI._validate_request
validate_request(data) ==
    LET accs == data.accounts
        bad_entry == \E i \in 1..Len(accs.v) :
                        \/ accs.v[i].t # "dict"
                        \/ "username" \notin accs.v[i].v
                        \/ "password" \notin accs.v[i].v
        suspected_account ==
            IF ~Truthy(data.suspected_account) THEN JStr("malangraya_info")
            ELSE data.suspected_account
        pcount == IF data.post_count = Absent THEN JInt(10) ELSE data.post_count
        ccount ==
            IF data.comment_count = Absent THEN JInt(5) ELSE data.comment_count
    IN  IF Truthy(accs) /\ accs.t # "list"
        THEN ValidationError("Accounts must be a list")
        ELSE IF Truthy(accs) /\ bad_entry
        THEN ValidationError("Each account must have 'username' and 'password' fields")
        ELSE IF suspected_account.t # "str" \/ suspected_account.v \in {"", " "}
        THEN ValidationError("suspected_account must be a non-empty string")
        ELSE IF ~IsInstanceInt(pcount) \/ IntValue(pcount) < 0
        THEN ValidationError("post_count must be a non-negative integer")
        ELSE IF ~IsInstanceInt(ccount) \/ IntValue(ccount) < 0
        THEN ValidationError("comment_count must be a non-negative integer")
        ELSE [error |-> FALSE, message |-> "",
              accounts |-> IF Truthy(accs) THEN accs ELSE Absent,
              suspected_account |-> suspected_account,
              post_count |-> pcount, comment_count |-> ccount]

\* InstagramProfileScraper.__init__(self) takes no custom_accounts argument:
\* InstagramProfileScraper(custom_accounts=...) raises TypeError
constructor_accepts_custom_accounts == FALSE

\* what api_server.InstagramProfileScraper is bound to: the class of main.py,
\* or the MagicMock that test_phase7 patches in
ScraperClasses == {"InstagramProfileScraper", "MagicMock"}

\* how the scraping goes once the scraper object exists: initialize() returns
\* False, scrape_profile returns nothing, a call raises, or all calls return
ScrapeOutcomes == {"initialize_false", "no_profile", "exception", "ok"}

\* the /scrape route with _handle_scrape_request
HandleScrapeRequest ==
    /\ apiResponse = NoResponse
    /\ apiRequest.body # "none"
    /\ IF EmptyBody(apiRequest)
       THEN /\ apiResponse' = [status |-> 400, error |-> "Invalid request",
                               message |-> "Request body must be valid JSON"]
            /\ UNCHANGED apiEffects
       ELSE LET validation_result == validate_request(apiRequest)
            IN  IF validation_result.error
                THEN /\ apiResponse' = [status |-> 400, error |-> TRUE,
                                        message |-> validation_result.message]
                     /\ UNCHANGED apiEffects
                ELSE IF /\ apiRequest.scraper_class = "InstagramProfileScraper"
                        /\ ~constructor_accepts_custom_accounts
                THEN \* caught by "except Exception" of the handler
                     /\ apiResponse' = [status |-> 500, error |-> "Scraping failed",
                                        message |-> "TypeError",
                                        validated |-> validation_result]
                     /\ UNCHANGED apiEffects
                ELSE \* a scraper object is created; scraper.cleanup() is called
                     \* on the path that reaches the response data only
                     \E outcome \in ScrapeOutcomes :
                       /\ apiEffects' = [scrapers |-> 1, logins |-> 1,
                                         files |-> IF outcome = "ok" THEN 2 ELSE 0,
                                         cleanups |-> IF outcome = "ok" THEN 1 ELSE 0]
                       /\ apiResponse' = [status |-> IF outcome = "ok" THEN 200 ELSE 500,
                                          validated |-> validation_result,
                                          outcome |-> outcome]
    /\ UNCHANGED apiRequest
    /\ UNCHANGED <<smVars, rlVars, scVars, fnVars, p5Vars, scroll>>

(* ---------------------------------------------------------------------- *)
(* _scroll_to_load_posts                                                    *)
(* ---------------------------------------------------------------------- *)

\* InstagramScraper._scroll_to_load_posts: max_scrolls
max_scrolls == 10

\* InstagramPostParser._scroll_to_load_posts: max_scroll_attempts
max_scroll_attempts == 10

\* no call running
ScrollFixed ==
    scroll = [variant |-> "none", pc |-> "idle", target_count |-> 0, visible |-> 0,
              scroll_attempts |-> 0, scrolls |-> 0, late |-> FALSE]

\* the numbers of post links the page can show
VisibleCounts == 0..MaxCount

\* entry of InstagramScraper._scroll_to_load_posts(target_count): the page
\* height is read and the counters are set
ScraperScrollStart ==
    /\ scroll.pc = "idle"
    /\ \E target \in 0..MaxCount, raises \in BOOLEAN :
         scroll' = [scroll EXCEPT !.variant = "scraper", !.target_count = target,
                                  !.pc = IF raises THEN "done" ELSE "loop"]
    /\ UNCHANGED <<smVars, rlVars, scVars, fnVars, apiVars, p5Vars>>

\* one pass of the while loop of InstagramScraper._scroll_to_load_posts:
\* count the valid links, stop if there are enough, else scroll and compare
\* the heights; any driver call may raise, which ends the call
ScraperScrollIteration ==
    /\ scroll.variant = "scraper" /\ scroll.pc = "loop"
    /\ IF scroll.scroll_attempts >= max_scrolls
       THEN scroll' = [scroll EXCEPT !.pc = "done"]
       ELSE \E raises \in {"no", "before_scroll", "after_scroll"},
               grew \in BOOLEAN, shown \in VisibleCounts :
              IF raises = "before_scroll" THEN scroll' = [scroll EXCEPT !.pc = "done"]
              ELSE IF scroll.visible >= scroll.target_count
              THEN scroll' = [scroll EXCEPT !.pc = "done"]
              ELSE scroll' = [scroll EXCEPT
                     !.scrolls = @ + 1,
                     !.late = @ \/ scroll.visible >= scroll.target_count,
                     !.visible = shown,
                     !.pc = IF raises = "after_scroll" \/ ~grew THEN "done" ELSE "loop",
                     !.scroll_attempts = IF raises = "no" /\ grew THEN @ + 1 ELSE @]
    /\ UNCHANGED <<smVars, rlVars, scVars, fnVars, apiVars, p5Vars>>

\* entry of InstagramPostParser._scroll_to_load_posts(driver, post_count): a
\* first scroll to offset 1000, then the page height is read
ParserScrollStart ==
    /\ scroll.pc = "idle"
    /\ \E target \in 0..MaxCount, raises \in {"no", "before_scroll", "after_scroll"},
          shown \in VisibleCounts :
         IF raises = "before_scroll"
         THEN scroll' = [scroll EXCEPT !.variant = "parser", !.target_count = target,
                                       !.pc = "done"]
         ELSE scroll' = [scroll EXCEPT
                !.variant = "parser", !.target_count = target,
                !.scrolls = @ + 1,
                !.late = @ \/ scroll.visible >= target,
                !.visible = shown,
                !.pc = IF raises = "after_scroll" THEN "done" ELSE "loop"]
    /\ UNCHANGED <<smVars, rlVars, scVars, fnVars, apiVars, p5Vars>>

\* one pass of the while loop of InstagramPostParser._scroll_to_load_posts:
\* scroll, count the links (a failing count is passed over), compare the heights
ParserScrollIteration ==
    /\ scroll.variant = "parser" /\ scroll.pc = "loop"
    /\ IF scroll.scroll_attempts >= max_scroll_attempts
       THEN scroll' = [scroll EXCEPT !.pc = "done"]
       ELSE \E raises \in {"no", "before_scroll", "after_scroll"},
               countFails \in BOOLEAN, grew \in BOOLEAN, shown \in VisibleCounts :
              IF raises = "before_scroll" THEN scroll' = [scroll EXCEPT !.pc = "done"]
              ELSE LET enough == ~countFails /\ shown >= scroll.target_count
                       stop == raises = "after_scroll" \/ enough \/ ~grew
                   IN  scroll' = [scroll EXCEPT
                          !.scrolls = @ + 1,
                          !.late = @ \/ scroll.visible >= scroll.target_count,
                          !.visible = shown,
                          !.pc = IF stop THEN "done" ELSE "loop",
                          !.scroll_attempts = IF stop THEN @ ELSE @ + 1]
    /\ UNCHANGED <<smVars, rlVars, scVars, fnVars, apiVars, p5Vars>>

(* ---------------------------------------------------------------------- *)
(* Phase5InstagramScraper                                                   *)
(* ---------------------------------------------------------------------- *)

\* Phase5InstagramScraper.__init__
P5Fixed ==
    /\ p5Scraper = 0
    /\ p5Objects = <<>>
    /\ p5Runs = 0
    /\ p5Last = [op |-> "none", outcome |-> "none", returned |-> "none"]

\* a scraper object on which nothing has been called yet
NewScraper == [initialize |-> "not_called", searches |-> 0, saves |-> 0, cleanups |-> 0]

\* how a run can go: InstagramProfileScraper() raises (its constructor opens
\* the log files), initialize() returns False, the search raises, saving
\* raises, or everything returns
RunOutcomes == {"constructor_raises", "initialize_false", "search_raises",
                "save_raises", "ok"}

\* the body of run_location_search / run_suspected_account_search: the try
\* block, then the finally clause
RunSearch(op, outcome) ==
    /\ p5Runs < MaxRuns
    /\ LET created == outcome # "constructor_raises"
           initialized == outcome \in {"search_raises", "save_raises", "ok"}
           objs1 == IF created THEN Append(p5Objects, NewScraper) ELSE p5Objects
           \* self.scraper when the finally clause runs
           cur == IF created THEN Len(objs1) ELSE p5Scraper
           objs2 == IF created
                    THEN [objs1 EXCEPT
                            ![cur].initialize = IF initialized THEN "True" ELSE "False",
                            ![cur].searches = IF initialized THEN 1 ELSE 0,
                            ![cur].saves = IF outcome \in {"save_raises", "ok"}
                                           THEN 1 ELSE 0]
                    ELSE objs1
           \* finally: if self.scraper: self.scraper.cleanup()
           objs3 == IF cur # 0 THEN [objs2 EXCEPT ![cur].cleanups = @ + 1] ELSE objs2
       IN  /\ p5Objects' = objs3
           /\ p5Scraper' = cur
    /\ p5Runs' = p5Runs + 1
    /\ p5Last' = [op |-> op, outcome |-> outcome,
                  returned |-> IF outcome = "ok" THEN "results" ELSE "error"]
    /\ UNCHANGED <<smVars, rlVars, scVars, fnVars, apiVars, scroll>>

RunLocationSearch ==
    \E outcome \in RunOutcomes : RunSearch("run_location_search", outcome)

RunSuspectedAccountSearch ==
    \E outcome \in RunOutcomes : RunSearch("run_suspected_account_search", outcome)

SMInit ==
    /\ \E n \in 1..MaxAccounts : accounts = SubSeq(AllAccounts, 1, n)
    /\ current_account_index = 0
    /\ sessions \in SUBSET {accounts[i] : i \in 1..Len(accounts)}
    /\ driver = FALSE
    /\ pc = "idle"
    /\ result = "none"
    /\ attempts = <<>>
    /\ attemptKinds = <<>>
    /\ startIndex = 0
    /\ setupFailed = FALSE
    /\ lastOp = "init"
    /\ lastRet = "None"
    /\ switchCalls = 0
    /\ exhausted = FALSE

\* RateLimiter.__init__: both stamps are 0
RLInit ==
    /\ now \in 0..1
    /\ request_delay \in 0..MaxDelay
    /\ login_delay \in 0..MaxDelay
    /\ last_request_time = 0
    /\ last_login_time = 0
    /\ rlCall = NoCall

\* the rate limiter left aside
RLFixed ==
    /\ now = 0
    /\ request_delay = 2
    /\ login_delay = 5
    /\ last_request_time = 0
    /\ last_login_time = 0
    /\ rlCall = NoCall

\* the session manager left aside
SMFixed ==
    /\ accounts = <<"A">>
    /\ current_account_index = 0
    /\ sessions = {}
    /\ driver = FALSE
    /\ pc = "idle"
    /\ result = "none"
    /\ attempts = <<>>
    /\ attemptKinds = <<>>
    /\ startIndex = 0
    /\ setupFailed = FALSE
    /\ lastOp = "init"
    /\ lastRet = "None"
    /\ switchCalls = 0
    /\ exhausted = FALSE

\* the scraping pipeline left aside / before an entry point is called
SCIdle ==
    /\ scPc = "idle"
    /\ scEntry = "none"
    /\ post_count = 0
    /\ min_quality = 5
    /\ post_links = <<>>
    /\ scIdx = 1
    /\ posts = <<>>
    /\ visited = <<>>
    /\ scResult = NoResult
    /\ comment_count = 0

SCFixed == page = [markup |-> "role", article |-> TRUE, anchors |-> <<>>] /\ SCIdle

\* no function called on its own
NoArg == [kind |-> "none"]

FNFixed == fnOp = "none" /\ fnInput = NoArg /\ fnOutput = NoArg

XTFixed == FNFixed /\ APIFixed /\ P5Fixed /\ ScrollFixed

Init == SMInit /\ RLFixed /\ SCFixed /\ XTFixed

Next ==
    \/ GetCurrentAccount
    \/ SwitchToBackupAccount
    \/ GetRemainingAccounts
    \/ ResetAccountIndex
    \/ LoginStart
    \/ LoginAttempt
    \/ LoginSwitch
    \/ LoginReturn

Spec == Init /\ [][Next]_vars

\* the login flow is sequential code: a started call keeps executing
LiveSpec == Init /\ [][Next]_vars /\ WF_vars(LoginAttempt) /\ WF_vars(LoginSwitch)

RateInit == RLInit /\ SMFixed /\ SCFixed /\ XTFixed

RateNext == WaitForRequest \/ WaitForLogin \/ Tick

RateSpec == RateInit /\ [][RateNext]_vars

LinkInit == page \in LinkPages /\ SCIdle /\ SMFixed /\ RLFixed /\ XTFixed

LinkNext == GetPostLinks \/ ParserGetPostLinks

LinkSpec == LinkInit /\ [][LinkNext]_vars

ScrapeInit == page \in ScrapePages /\ SCIdle /\ SMFixed /\ RLFixed /\ XTFixed

ScrapeNext ==
    \/ ScrapePosts
    \/ ExtractProfilePosts
    \/ ScrapePostsEnhanced
    \/ VisitPost
    \/ FinishScrape
    \/ CleanBatchData
    \/ SearchByLocation
    \/ SearchBySuspectedAccount
    \/ SearchVisitPost
    \/ SearchFinish

ScrapeSpec == ScrapeInit /\ [][ScrapeNext]_vars

CallInit ==
    /\ fnOp = "none" /\ fnInput \in FnInputs /\ fnOutput = NoArg
    /\ SMFixed /\ RLFixed /\ SCFixed /\ APIFixed /\ P5Fixed /\ ScrollFixed

CallNext == CalculateQualityScore \/ CleanUrl \/ TestBasicNavigation

CallSpec == CallInit /\ [][CallNext]_vars

LoginCallInit ==
    /\ fnOp = "none" /\ fnOutput = NoArg
    /\ fnInput \in {[kind |-> "login", arg |-> x] : x \in LoginInputs}
                    \cup {[kind |-> "page", arg |-> x] : x \in LoginPages}
    /\ SMFixed /\ RLFixed /\ SCFixed /\ APIFixed /\ P5Fixed /\ ScrollFixed

LoginCallNext == LoginWithAccount \/ CheckLoginSuccess

LoginCallSpec == LoginCallInit /\ [][LoginCallNext]_vars

ApiInit ==
    /\ apiRequest \in {r @@ [scraper_class |-> c] :
                           r \in ScrapeRequests, c \in ScraperClasses}
    /\ apiResponse = NoResponse
    /\ apiEffects = NoEffects
    /\ SMFixed /\ RLFixed /\ SCFixed /\ FNFixed /\ P5Fixed /\ ScrollFixed

ApiNext == HandleScrapeRequest

ApiSpec == ApiInit /\ [][ApiNext]_vars

Phase5Init ==
    P5Fixed /\ SMFixed /\ RLFixed /\ SCFixed /\ FNFixed /\ APIFixed /\ ScrollFixed

Phase5Next == RunLocationSearch \/ RunSuspectedAccountSearch

Phase5Spec == Phase5Init /\ [][Phase5Next]_vars

\* the page before the call shows any number of links
ScrollInit ==
    /\ \E shown \in VisibleCounts : scroll = [variant |-> "none", pc |-> "idle",
           target_count |-> 0, visible |-> shown, scroll_attempts |-> 0,
           scrolls |-> 0, late |-> FALSE]
    /\ SMFixed /\ RLFixed /\ SCFixed /\ FNFixed /\ APIFixed /\ P5Fixed

ScrollNext ==
    \/ ScraperScrollStart
    \/ ScraperScrollIteration
    \/ ParserScrollStart
    \/ ParserScrollIteration

ScrollSpec == ScrollInit /\ [][ScrollNext]_vars

ExtractInit ==
    /\ fnOp = "none" /\ fnOutput = NoArg
    /\ fnInput \in {[kind |-> "date_page", arg |-> x] : x \in DatePages}
                    \cup {[kind |-> "caption_page", arg |-> x] : x \in CaptionPages}
                    \cup {[kind |-> "comment_page", arg |-> x] : x \in CommentPages}
                    \cup {[kind |-> "text", arg |-> x] : x \in CommentTexts}
    /\ SMFixed /\ RLFixed /\ SCFixed /\ APIFixed /\ P5Fixed /\ ScrollFixed

ExtractNext ==
    \/ ExtractReleaseDateEnhanced
    \/ ExtractCaptionEnhanced
    \/ ExtractCommentsEnhanced
    \/ IsLikelyComment

ExtractSpec == ExtractInit /\ [][ExtractNext]_vars

CaptionInit ==
    /\ fnOp = "none" /\ fnOutput = NoArg
    /\ fnInput \in {[kind |-> "caption", arg |-> x] : x \in CaptionInputs}
    /\ SMFixed /\ RLFixed /\ SCFixed /\ APIFixed /\ P5Fixed /\ ScrollFixed

CaptionNext == CleanCaption

CaptionSpec == CaptionInit /\ [][CaptionNext]_vars

(* ====================================================================== *)
(* Properties                                                              *)
(* ====================================================================== *)

\* the identities from the cursor at call time to the end of the list
FromCursor == IF startIndex >= N THEN <<>> ELSE SubSeq(accounts, startIndex + 1, N)

\* the attempted identities, in the order of the attempts
Attempted == [i \in 1..Len(attempts) |-> attempts[i][1]]

AttemptsInOrder ==
    /\ Len(attempts) <= Len(FromCursor)
    /\ Attempted = SubSeq(FromCursor, 1, Len(attempts))
    /\ \A i \in 1..Len(attempts), j \in 1..Len(attempts) :
         i # j => attempts[i][1] # attempts[j][1]
    /\ \A i \in 1..(Len(attempts) - 1) : ~attempts[i][2]
    /\ (pc = "done" /\ result = TRUE) =>
          (Len(attempts) >= 1 /\ attempts[Len(attempts)][2])

AllTriedAndFailed ==
    /\ Attempted = FromCursor
    /\ \A i \in 1..Len(attempts) : ~attempts[i][2]

\* C1 as stated: the attempts of login_with_backup_support are a prefix of the
\* account list from the cursor, each identity once, none after a success, and
\* False is returned only after every identity from the cursor on has failed.
C1_Original ==
    /\ AttemptsInOrder
    /\ (pc = "done" /\ result = FALSE) => AllTriedAndFailed

C1_Safety ==
    /\ AttemptsInOrder
    /\ (pc = "done" /\ result = FALSE) =>
          \/ AllTriedAndFailed
          \/ (setupFailed /\ attempts = <<>>)

\* C1 amended: login_with_backup_support always terminates; its attempts are a
\* prefix of the account list from the cursor, each identity once, none after
\* a success; False is returned only after every identity from the cursor on
\* has been attempted and failed, or when the WebDriver could not be set up
\* (then no identity is attempted).
C1_Amended == []C1_Safety /\ ((pc # "idle") ~> (pc = "done"))

C1_Witness ==
    /\ pc = "done" /\ result = FALSE /\ ~setupFailed
    /\ startIndex = 0 /\ Len(attempts) = 3

\* C2: with identities [A, B], A's attempts failing and B's attempt succeeding:
\* the current account is A before the call, the call returns True, A is
\* attempted before B, and afterwards the current account is B with 0 remaining.
C2_Rotation ==
    (/\ pc = "done"
     /\ accounts = <<"A", "B">>
     /\ startIndex = 0
     /\ \E i \in 1..Len(attempts) : attempts[i] = <<"B", TRUE>>
     /\ \A i \in 1..Len(attempts) : attempts[i][1] = "A" => ~attempts[i][2])
    => /\ get_current_account(accounts, startIndex) = "A"
       /\ result = TRUE
       /\ attempts = << <<"A", FALSE>>, <<"B", TRUE>> >>
       /\ get_current_account(accounts, current_account_index) = "B"
       /\ get_remaining_accounts(accounts, current_account_index) = 0

C2_Witness ==
    /\ pc = "done"
    /\ accounts = <<"A", "B">>
    /\ attempts = << <<"A", FALSE>>, <<"B", TRUE>> >>

\* C3: from cursor 0, the k-th call of switch_to_backup_account returns the
\* account at index k for k <= N-1, and None for the N-th and every later call.
C3_SwitchReturns ==
    lastOp = "switch" =>
        IF switchCalls <= N - 1
        THEN lastRet = accounts[switchCalls + 1]
        ELSE lastRet = "None"

C3_Witness ==
    /\ lastOp = "switch" /\ N = 3 /\ switchCalls = N + 1 /\ lastRet = "None"

\* C4: 0 <= current_account_index <= len(accounts) in every reachable state.
C4_CursorInRange ==
    0 <= current_account_index /\ current_account_index <= N

\* C5: once switch_to_backup_account has returned None, get_current_account
\* raises IndexError until reset_account_index; after the reset the cursor is 0
\* and the first account is current; only switch and reset move the cursor.
C5_State ==
    /\ exhausted =>
          get_current_account(accounts, current_account_index) = "IndexError"
    /\ (exhausted /\ lastOp = "get_current") => lastRet = "IndexError"
    /\ lastOp = "reset" =>
          /\ current_account_index = 0
          /\ get_current_account(accounts, current_account_index) = accounts[1]

C5_Step ==
    current_account_index' # current_account_index =>
        lastOp' \in {"switch", "reset"}

C5_Exhaustion == []C5_State /\ [][C5_Step]_vars

C5_Witness ==
    /\ exhausted /\ lastOp = "get_current" /\ lastRet = "IndexError"

\* C6: get_remaining_accounts() is non-negative and equals the number of
\* configured identities positioned after the current one.
C6_Remaining ==
    /\ get_remaining_accounts(accounts, current_account_index) >= 0
    /\ get_remaining_accounts(accounts, current_account_index) =
          Cardinality({i \in 0..(N - 1) : i > current_account_index})

\* C7: a wait_for_* call sleeps exactly D - elapsed when elapsed < D and not at
\* all otherwise (never when D = 0), stamps its class with the time after the
\* sleep, so that consecutive stamps of a class are at least D apart; and it
\* leaves the other class's stamp alone.
DelayOf(class) == IF class = "request" THEN request_delay ELSE login_delay

StampOf(class) == IF class = "request" THEN last_request_time ELSE last_login_time

C7_State ==
    rlCall.class # "none" =>
        LET D == DelayOf(rlCall.class)
        IN  /\ rlCall.elapsed < D => rlCall.slept = D - rlCall.elapsed
            /\ rlCall.elapsed >= D => rlCall.slept = 0
            /\ D = 0 => rlCall.slept = 0
            /\ StampOf(rlCall.class) >= rlCall.prev + rlCall.elapsed + rlCall.slept
            /\ StampOf(rlCall.class) <= now
            /\ StampOf(rlCall.class) - rlCall.prev >= D

C7_Step ==
    /\ rlCall' # rlCall => last_request_time' = now' \/ last_login_time' = now'
    /\ rlCall'.class = "request" => last_login_time' = last_login_time
    /\ rlCall'.class = "login" => last_request_time' = last_request_time

FailedVisits == {i \in 1..Len(visited) : visited[i][2] # "record"}

OneLinkFailed ==
    /\ scPc = "done"
    /\ scEntry \in {"scrape_posts", "extract_profile_posts"}
    /\ Len(post_links) >= 1
    /\ Len(visited) >= 1
    /\ Cardinality(FailedVisits) = 1

\* the part of C8 about the records: every link is visited, K-1 records
C8_VisitsAndRecords ==
    OneLinkFailed =>
        /\ [i \in 1..Len(visited) |-> visited[i][1]] = post_links
        /\ Len(scResult.results) = Len(post_links) - 1

\* C8: if extraction fails for exactly one of the K discovered links, the run
\* visits every remaining link, returns K-1 records, and its result carries an
\* error list with exactly one entry, referencing the URL of the failed link.
C8_PartialFailure ==
    OneLinkFailed =>
        /\ [i \in 1..Len(visited) |-> visited[i][1]] = post_links
        /\ Len(scResult.results) = Len(post_links) - 1
        /\ "errors" \in DOMAIN scResult
        /\ Len(scResult.errors) = 1
        /\ \A i \in FailedVisits : scResult.errors[1].post_url = visited[i][1]

\* C9: in every returned result the reported extracted count (total_scraped /
\* total_posts_extracted) equals the number of records in results, and that
\* number is at most post_count.
C9_CountMatches ==
    scPc = "done" =>
        /\ "total_scraped" \in DOMAIN scResult =>
              /\ scResult.total_scraped = Len(scResult.results)
              /\ Len(scResult.results) <= post_count
        /\ "total_posts_extracted" \in DOMAIN scResult =>
              /\ scResult.total_posts_extracted = Len(scResult.results)
              /\ Len(scResult.results) <= post_count

\* the candidate elements' URLs as the function under test sees them
CandidateUrls ==
    IF scEntry = "scraper_links"
    THEN [i \in 1..Len(CandidateElements(page)) |-> ResolveHref(CandidateElements(page)[i])]
    ELSE Strategy3(page)

FirstIndex(seq, x) ==
    CHOOSE i \in 1..Len(seq) : seq[i] = x /\ \A j \in 1..(i - 1) : seq[j] # x

LinksUniqueOrderedBounded ==
    /\ \A i, j \in 1..Len(post_links) : i # j => post_links[i] # post_links[j]
    /\ \A i \in 1..Len(post_links) :
          \E k \in 1..Len(CandidateUrls) : CandidateUrls[k] = post_links[i]
    /\ \A i, j \in 1..Len(post_links) :
          i < j => FirstIndex(CandidateUrls, post_links[i])
                     < FirstIndex(CandidateUrls, post_links[j])
    /\ Len(post_links) <= post_count

\* the part of C10 that does not concern the domain
C10_UniqueOrderedShaped ==
    (scPc = "done" /\ scEntry \in {"scraper_links", "parser_links"}) =>
        /\ LinksUniqueOrderedBounded
        /\ \A i \in 1..Len(post_links) : HasPostShape(post_links[i])

\* C10: _get_post_links(max_posts) returns no URL twice, in the order of first
\* appearance among the candidate elements, at most max_posts of them, and only
\* URLs of the post/reel shape on the target domain.
C10_Links ==
    (scPc = "done" /\ scEntry \in {"scraper_links", "parser_links"}) =>
        /\ LinksUniqueOrderedBounded
        /\ \A i \in 1..Len(post_links) :
              /\ HasPostShape(post_links[i])
              /\ ~post_links[i].rel
              /\ post_links[i].host = IG

\* the unique post/reel links the page exposes to InstagramScraper._get_post_links
UniqueLinks ==
    {ResolveHref(CandidateElements(page)[i]) : i \in 1..Len(CandidateElements(page))}
        \cap {h \in [rel : {FALSE}, host : {IG, "fakeinstagram.com", "example.org"},
                      kind : {"p", "reel", "explore", ""}, id : 0..6,
                      enc : {0}, ws : {FALSE}] :
                 h # NoHref /\ ValidPostLink(h)}

\* C11: when the page exposes U unique post/reel links, _get_post_links(target)
\* returns exactly min(target, U) URLs, whatever the duplicates among the link
\* elements and their order.
C11_MinTargetUnique ==
    (scPc = "done" /\ scEntry = "scraper_links") =>
        Len(post_links) = Min(post_count, Cardinality(UniqueLinks))

UrlsOf(records) == [i \in 1..Len(records) |-> records[i].urlPost]

\* the links whose visit yielded a record, in the order of the visits
RecordedUrls ==
    LET rec == SelectSeq(visited, LAMBDA v : v[2] = "record")
    IN  [i \in 1..Len(rec) |-> rec[i][1]]

\* the records of rs appear in the order of the sequence of links
InDiscoveryOrder(rs, links) ==
    /\ \A i \in 1..Len(rs) : \E k \in 1..Len(links) : links[k] = rs[i].urlPost
    /\ \A i, j \in 1..Len(rs) :
          i < j => FirstIndex(links, rs[i].urlPost) < FirstIndex(links, rs[j].urlPost)

\* rs is exactly the subsequence of cs made of the records scoring >= minq
ExactQualitySubsequence(rs, cs, minq) ==
    /\ \A i \in 1..Len(rs) : \E k \in 1..Len(cs) : cs[k] = rs[i]
    /\ \A i, j \in 1..Len(rs) :
          i < j => FirstIndex(cs, rs[i]) < FirstIndex(cs, rs[j])
    /\ \A k \in 1..Len(cs) :
          (QualityOf(cs[k]) >= minq) <=> (\E i \in 1..Len(rs) : rs[i] = cs[k])
    /\ \A i, j \in 1..Len(rs) : i # j => rs[i] # rs[j]

\* C12: records appear in discovery order (the order of the discovered links);
\* clean_batch_data keeps that order, and filter_by_quality returns exactly the
\* subsequence of the records whose quality_score is >= min_quality.
C12_DiscoveryOrder ==
    /\ scPc \in {"loop", "done", "cleaned"} =>
          /\ [i \in 1..Len(visited) |-> visited[i][1]] = Take(post_links, Len(visited))
          /\ UrlsOf(posts) = RecordedUrls
          /\ InDiscoveryOrder(posts, post_links)
    /\ (scPc = "done" /\ scEntry # "none") =>
          InDiscoveryOrder(scResult.results, post_links)
    /\ (scPc = "done" /\ scEntry = "scrape_posts_enhanced"
          /\ "requested_posts" \in DOMAIN scResult /\ min_quality > 0) =>
          ExactQualitySubsequence(scResult.results, clean_batch_data(posts), min_quality)
    /\ scPc = "cleaned" =>
          /\ Len(scResult.cleaned) = Len(scResult.raw)
          /\ UrlsOf(scResult.cleaned) = UrlsOf(scResult.raw)
          /\ InDiscoveryOrder(scResult.cleaned, post_links)
          /\ InDiscoveryOrder(scResult.results, post_links)
          /\ ExactQualitySubsequence(scResult.results, scResult.cleaned, min_quality)

\* three records cleaned, the middle one filtered out at its own threshold + 1
C12_Witness ==
    /\ scPc = "cleaned"
    /\ Len(scResult.cleaned) = 3
    /\ Len(scResult.results) = 2
    /\ scResult.results = << scResult.cleaned[1], scResult.cleaned[3] >>
    /\ QualityOf(scResult.cleaned[2]) < min_quality

\* the records a state holds: those collected so far and those returned
EmittedRecords ==
    {posts[i] : i \in 1..Len(posts)}
        \cup {scResult.results[i] : i \in 1..Len(scResult.results)}
        \cup (IF "cleaned" \in DOMAIN scResult
              THEN {scResult.cleaned[i] : i \in 1..Len(scResult.cleaned)} ELSE {})

\* C13: every record that carries a quality_score has the score that
\* calculate_quality_score gives for the record's final author, URL, caption
\* and comments, on every path that produces records.
C13_ScoreMatchesFields ==
    \A r \in EmittedRecords :
        "quality_score" \in DOMAIN r => r.quality_score = calculate_quality_score(r)

\* a returned record whose author and score were changed by cleaning
C13_Witness ==
    /\ scPc = "done"
    /\ scEntry = "scrape_posts_enhanced"
    /\ \E i \in 1..Len(scResult.results) :
          /\ scResult.results[i].usernamePost = <<"a">>
          /\ scResult.results[i].quality_score = 8

\* every character of the author is one of [A-Za-z0-9._]
InAllowedClass(username) ==
    username # <<>> /\ \A i \in 1..Len(username) : username[i] \in AllowedChars

\* the weighted sum as specified, in tenths
SpecifiedScore(post_data) ==
    LET username == Get(post_data, "usernamePost", <<>>)
        url == Get(post_data, "urlPost", NoHref)
        caption == Get(post_data, "caption", 0)
        comments == Get(post_data, "comments", <<>>)
        n == Len(comments)
        t == SumSeq(comments, 1)
    IN  (IF username # UnknownUser /\ InAllowedClass(username) THEN 2
         ELSE IF username # <<>> THEN 1 ELSE 0)
        + (IF url # NoHref /\ ~url.rel /\ HasPostShape(url) THEN 2
           ELSE IF url # NoHref THEN 1 ELSE 0)
        + (IF caption > 50 THEN 3 ELSE IF caption > 10 THEN 2
           ELSE IF caption > 0 THEN 1 ELSE 0)
        + (IF n >= 5 /\ t > 20 * n THEN 3 ELSE IF n >= 3 /\ t > 10 * n THEN 2
           ELSE IF n >= 1 THEN 1 ELSE 0)

\* C14: calculate_quality_score equals the specified weighted sum for every
\* combination of tiers; author 'test_user', url 'https://host/p/X/', a
\* caption of length 60 and 5 comments of 25 characters score exactly 1.0.
C14_WeightedSum ==
    fnOp = "calculate_quality_score" =>
        /\ fnOutput.first = SpecifiedScore(fnInput.arg)
        /\ fnInput.arg = [usernamePost |-> TestUser, urlPost |-> HostPost,
                          caption |-> 60, comments |-> <<25, 25, 25, 25, 25>>]
              => fnOutput.first = 10

\* C15: for every record, with fields missing or empty, the score lies in
\* [0.0, 1.0], a second call on the same record returns the same value, and the
\* call changes nothing but its result: not its argument, no other state.
C15_State ==
    fnOp = "calculate_quality_score" =>
        /\ fnOutput.first \in 0..10
        /\ fnOutput.second = fnOutput.first

C15_Step ==
    fnOp' = "calculate_quality_score" =>
        /\ fnInput' = fnInput
        /\ UNCHANGED <<smVars, rlVars, scVars, apiVars, p5Vars, scroll>>

BadCount(x) == x # Absent /\ (x.t # "int" \/ x.v < 0)

\* accounts present but not a list, or a list with an entry lacking a field
BadAccounts(x) ==
    /\ x # Absent
    /\ \/ x.t # "list"
       \/ \E i \in 1..Len(x.v) :
             \/ x.v[i].t # "dict"
             \/ "username" \notin x.v[i].v
             \/ "password" \notin x.v[i].v

\* the field(s) a validation message names
NamesField(msg, field) ==
    \/ field = "accounts" /\ msg \in {"Accounts must be a list",
           "Each account must have 'username' and 'password' fields"}
    \/ field = "post_count" /\ msg = "post_count must be a non-negative integer"
    \/ field = "comment_count" /\ msg = "comment_count must be a non-negative integer"

\* a request whose present fields are all valid and that omits at least one of
\* suspected_account, post_count, comment_count
OmitsOptional(req) ==
    /\ req.body = "object"
    /\ ~BadAccounts(req.accounts) /\ ~BadCount(req.post_count)
    /\ ~BadCount(req.comment_count)
    /\ req.suspected_account \in {Absent, JStr("test_account")}
    /\ Absent \in {req.suspected_account, req.post_count, req.comment_count}

\* C16: a /scrape request that fails validation (a count negative or not an
\* integer, accounts present but not a list, an accounts entry lacking
\* 'username' or 'password') is answered 400 with a message naming the
\* offending field, and no scraper is constructed, no login attempted and no
\* file written; a request omitting suspected_account, post_count or
\* comment_count passes validation with the configured defaults.
C16_Validation ==
    apiResponse # NoResponse =>
        /\ (apiRequest.body = "object"
              /\ (BadAccounts(apiRequest.accounts) \/ BadCount(apiRequest.post_count)
                    \/ BadCount(apiRequest.comment_count))) =>
              /\ apiResponse.status = 400
              /\ \/ BadAccounts(apiRequest.accounts)
                      /\ NamesField(apiResponse.message, "accounts")
                 \/ BadCount(apiRequest.post_count)
                      /\ NamesField(apiResponse.message, "post_count")
                 \/ BadCount(apiRequest.comment_count)
                      /\ NamesField(apiResponse.message, "comment_count")
              /\ apiEffects = NoEffects
        /\ OmitsOptional(apiRequest) =>
              /\ apiResponse.status # 400
              /\ apiRequest.suspected_account = Absent =>
                    apiResponse.validated.suspected_account = JStr("malangraya_info")
              /\ apiRequest.post_count = Absent =>
                    apiResponse.validated.post_count = JInt(10)
              /\ apiRequest.comment_count = Absent =>
                    apiResponse.validated.comment_count = JInt(5)

\* the part of C17 about the order of the calls
C17_SearchAfterInitialize ==
    \A i \in 1..Len(p5Objects) :
        (p5Objects[i].searches > 0 \/ p5Objects[i].saves > 0) =>
            p5Objects[i].initialize = "True"

\* C17: after any sequence of runs on one Phase5InstagramScraper, every scraper
\* object a run created has had cleanup() called exactly once, and search and
\* save were called on it only after its initialize() returned True.
C17_CleanupOnce ==
    \A i \in 1..Len(p5Objects) :
        /\ p5Objects[i].cleanups = 1
        /\ (p5Objects[i].searches > 0 \/ p5Objects[i].saves > 0) =>
              p5Objects[i].initialize = "True"

\* C18: with an initialised scraper and a navigation that does not raise,
\* test_basic_navigation returns True exactly when the URL reached is not the
\* login page, not the code-entry page and holds no failure pattern.
C18_NavigationResult ==
    (fnOp = "test_basic_navigation" /\ fnInput.arg.initialised /\ ~fnInput.arg.raises) =>
        (fnOutput.value <=> fnInput.arg.contains = {})

\* C19: clean_url applied to its own result changes nothing, and a relative
\* '/p/...' or '/reel/...' path comes out prefixed with https://www.instagram.com.
C19_CleanUrlIdempotent ==
    fnOp = "clean_url" =>
        /\ fnOutput.twice = fnOutput.once
        /\ (fnInput.arg.rel /\ HasPostShape(fnInput.arg)) =>
              (~fnOutput.once.rel /\ fnOutput.once.host = IG)

Suspicious(shown) == shown.current_url \cap SuspiciousPatterns # {}

\* C20: when the page seen after a session restore or after submitting the
\* credentials has a suspicious pattern in its location, login_with_account
\* returns False, leaves no session stored for the account, and after a
\* suspicious restore does not go on to submit that account's credentials.
C20_SuspiciousNeverLoggedIn ==
    fnOp = "login_with_account" =>
        LET in == fnInput.arg
            suspiciousRestore == fnOutput.restoreChecked /\ Suspicious(in.restorePage)
            suspiciousSubmit == fnOutput.submitted /\ Suspicious(in.submitPage)
        IN  (suspiciousRestore \/ suspiciousSubmit) =>
                /\ ~fnOutput.value
                /\ fnOutput.username \notin fnOutput.sessions
                /\ suspiciousRestore => ~fnOutput.submitted

\* the substrings of the location that rule out a logged-in page
FailurePatterns == SuspiciousPatterns \cup {LoginPageMark}

\* C21: _check_login_success reports logged-in whenever the location is the
\* canonical home URL, whatever landmarks or error elements the page has, and
\* never reports logged-in for a location holding a failure pattern, landmark
\* or not.
C21_SignalPriority ==
    fnOp = "check_login_success" =>
        /\ (fnInput.arg.current_url = HomeUrl /\ ~fnInput.arg.raises) => fnOutput.value
        /\ (fnInput.arg.current_url \cap FailurePatterns # {}) => ~fnOutput.value

\* the calls of a login_with_account run, as a set
CallsMade == {fnOutput.calls[i] : i \in 1..Len(fnOutput.calls)}

\* the call named first comes earlier in the run than every call named second
CalledBefore(first, second) ==
    \E i \in 1..Len(fnOutput.calls) :
        /\ fnOutput.calls[i] = first
        /\ \A j \in 1..Len(fnOutput.calls) : fnOutput.calls[j] = second => i < j

\* a session file for the account was stored and loaded
RestoreTried == fnInput.arg.stored /\ fnInput.arg.load

C23_NoSessionAtAdvance ==
    (pc = "switch" /\ Len(attempts) >= 1) =>
        attempts[Len(attempts)][1] \notin sessions

\* C24: a login_with_account call that ends logged-in has called save_session
\* for the account and leaves a session file for it; one that ends in failure
\* has not called save_session; and the session files of the other accounts
\* are as before.
C24_SavedWhenLoggedIn ==
    fnOp = "login_with_account" =>
        /\ fnOutput.value =>
              ("save_session" \in CallsMade /\ fnOutput.username \in fnOutput.sessions)
        /\ ~fnOutput.value => "save_session" \notin CallsMade
        /\ fnOutput.sessions \ {fnOutput.username}
              = fnOutput.before \ {fnOutput.username}

\* the number of login_with_account calls made so far for an account
AttemptsFor(u) == Cardinality({i \in 1..Len(attempts) : attempts[i][1] = u})

\* C25: when login_with_backup_support is about to advance past an account, at
\* most two attempts were made for it, and if its last attempt ended in a soft
\* failure (check failed, no suspicious pattern in the location) it was the
\* second attempt for that account.
C25_SoftFailRetried ==
    (pc = "switch" /\ Len(attempts) >= 1) =>
        LET u == attempts[Len(attempts)][1]
        IN  /\ AttemptsFor(u) <= 2
            /\ attemptKinds[Len(attempts)] = "soft_fail" => AttemptsFor(u) = 2

\* C26: a _scroll_to_load_posts call issues at most 10 scrolls and never
\* issues a scroll while the target number of links is already visible.
C26_ScrollBound ==
    /\ scroll.scrolls <= max_scrolls
    /\ ~scroll.late

\* the strategy whose value the fixed priority order selects
FirstInPriority(pg) ==
    IF pg.structured = "value" THEN "structured"
    ELSE IF pg.meta = "value" THEN "meta"
    ELSE IF pg.rendered = "value" THEN "rendered"
    ELSE IF pg.selenium = "value" THEN "selenium"
    ELSE "default"

\* the comments of the first strategy that finds any, cut to the number asked
FirstCommentSource(pg) ==
    LET first == IF pg.json # <<>> THEN pg.json
                 ELSE IF pg.html # <<>> THEN pg.html ELSE pg.selenium
    IN  SubSeq(first, 1, IF Len(first) < pg.comment_count
                         THEN Len(first) ELSE pg.comment_count)

\* C27: the timestamp and the caption come from the first strategy, in the
\* order structured data, meta tag, rendered content, last resort, that
\* finds a plausible value; the comments are those of the first strategy that
\* finds any.
C27_StrategyOrder ==
    /\ fnOp \in {"extract_release_date_enhanced", "extract_caption_enhanced"} =>
          fnOutput.value = FirstInPriority(fnInput.arg)
    /\ fnOp = "extract_comments_enhanced" =>
          fnOutput.value = FirstCommentSource(fnInput.arg)

\* the text holds at least n newlines in a row
NewlineRun(str, n) ==
    \E i \in 1..(Len(str) - n + 1) : \A j \in i..(i + n - 1) : str[j] = "\n"

\* every run of spaces and tabs replaced by one space
RECURSIVE SqueezeBlanks(_)
SqueezeBlanks(str) ==
    IF str = <<>> THEN <<>>
    ELSE IF Head(str) \in {" ", "\t"}
         THEN <<" ">> \o SqueezeBlanks(LStrip(str, {" ", "\t"}))
         ELSE <<Head(str)>> \o SqueezeBlanks(Tail(str))

Trimmed(str) == RStrip(LStrip(str, CaptionWhitespace), CaptionWhitespace)

HoldsOnly(str, chars) == \A i \in 1..Len(str) : str[i] \in chars

\* C29: clean_caption trims its input; a paragraph break (two or more
\* newlines in a row inside the text) comes out as exactly two newlines, so
\* the output of such a caption holds two newlines in a row and never three;
\* on a caption whose only whitespace is spaces and tabs every run is replaced
\* by one space.
C29_CaptionBreaksSurvive ==
    fnOp = "clean_caption" =>
        /\ fnOutput.value = Trimmed(fnOutput.value)
        /\ ~NewlineRun(fnOutput.value, 3)
        /\ (HoldsOnly(fnInput.arg, {"a", "\n"}) /\ NewlineRun(Trimmed(fnInput.arg), 2)) =>
              NewlineRun(fnOutput.value, 2)
        /\ HoldsOnly(fnInput.arg, {"a", " ", "\t"}) =>
              fnOutput.value = Trimmed(SqueezeBlanks(fnInput.arg))

\* the texts that are not comments: the labels, the relative times, the
\* numbers, the lone mentions, the reaction glyphs, the overlong and the
\* newline-heavy texts
NotAComment(t) ==
    \/ t.text \in {"Like", "Reply", "View replies"}
    \/ t.time
    \/ t.isdigit
    \/ t.mention
    \/ t.text \in {"heart", "thumbs up", "fire"}
    \/ t.len > 500
    \/ t.newlines > 5

\* C28: _is_likely_comment as bound on the class returns False for every text
\* that is not a comment and True for the ordinary sentence.
C28_CommentPredicate ==
    fnOp = "is_likely_comment" =>
        /\ NotAComment(fnInput.arg) => ~fnOutput.value
        /\ fnInput.arg.text = "Great shot, thanks for sharing!" => fnOutput.value

\* C30: when the /scrape handler has answered, cleanup() has been called on
\* every scraper object it created.
C30_CleanupBeforeResponse ==
    apiResponse # NoResponse => apiEffects.cleanups = apiEffects.scrapers

====
